---- MODULE Spec2Model ----
(***************************************************************************)
(* A model of py-lua-doc (package luadoc): the EmmyLua type-expression     *)
(* parser (emmylua.py, luadoc.py), the tag parser LuaDocParser and the     *)
(* model assembler TreeVisitor (parser.py), and the batch driver           *)
(* FilesProcessor (core.py).                                               *)
(*                                                                         *)
(* Text is modelled as text: a comment line, a tag payload and a type      *)
(* expression are strings, and splitting, stripping, the regular           *)
(* expressions and the PEG grammar are computed character by character.    *)
(* Python objects that are shared by reference (LuaFunction, LuaClass,     *)
(* LuaModule, LuaValue, LuaClassField) live in a heap and are named by     *)
(* their index in it.                                                      *)
(***************************************************************************)
EXTENDS Naturals, Sequences, FiniteSets, TLC

VARIABLES
    heap,            \* the objects created so far, a reference is an index
    class_map,       \* TreeVisitor._class_map: sequence of <<key, ref>>, insertion order
    function_list,   \* TreeVisitor._function_list: references
    module,          \* TreeVisitor._module: a reference, or None
    parser,          \* the fields of the LuaDocParser owned by the TreeVisitor
    errors,          \* the diagnostics logged by report_error, in order
    exc,             \* the exception that left build_module_doc_model, "" when none
    pc,              \* "start", "walk", "done" (get_model returned) or "raised"
    model,           \* the reference get_model returned, or None
    visited,         \* the nodes visited so far, in order
    last,            \* what _process_ldoc returned for the last node visited
    vocab,           \* which comment lines the unit under analysis is written with
    t_tree,          \* type parser: the type expression the text is written from
    t_input,         \* type parser: the text to parse
    t_result,        \* type parser: what the call returned or raised
    t_pc,            \* type parser: "start", "parsed" (parse_param_field) or "word"
    files,           \* batch: per file, what _process_one does for it
    futures,         \* batch: per file, "pending", "running", "ok" or "raised"
    collected,       \* batch: per file, whether as_completed has yielded its future
    batch_model,     \* batch: the list run() builds
    batch_log,       \* batch: the files logged as having raised
    jobs,            \* batch: max_workers
    batch_pc         \* batch: where run() is: "run" or "returned"

vars == <<heap, class_map, function_list, module, parser, errors, exc, pc, model,
          visited, last, vocab, t_tree, t_input, t_result, t_pc,
          files, futures, collected, batch_model, batch_log, jobs, batch_pc>>

walk_vars == <<heap, class_map, function_list, module, parser, errors, exc, pc,
               model, visited, last, vocab>>
type_vars == <<t_tree, t_input, t_result, t_pc>>
batch_vars == <<files, futures, collected, batch_model, batch_log, jobs, batch_pc>>

None == 0

\* F applied to the value v, which is computed once
Let(v, F(_)) == F(v)

(***************************************************************************)
(* Strings                                                                 *)
(***************************************************************************)
Lower == {"a","b","c","d","e","f","g","h","i","j","k","l","m",
          "n","o","p","q","r","s","t","u","v","w","x","y","z"}
Upper == {"A","B","C","D","E","F","G","H","I","J","K","L","M",
          "N","O","P","Q","R","S","T","U","V","W","X","Y","Z"}
Digit == {"0","1","2","3","4","5","6","7","8","9"}
\* \w of the re module, for the ASCII text of the model
WordChar == Lower \cup Upper \cup Digit \cup {"_"}
\* [\w.]
WordDotChar == WordChar \cup {"."}
\* [_a-zA-Z] and [_a-zA-Z0-9]
IdStart == Lower \cup Upper \cup {"_"}
IdChar == IdStart \cup Digit

At(str, i) == SubSeq(str, i, i)
From(str, i) == SubSeq(str, i, Len(str))
Last(seq) == seq[Len(seq)]
Front(seq) == SubSeq(seq, 1, Len(seq) - 1)

\* str.startswith(prefix)
StartsWith(str, prefix) ==
    Len(str) >= Len(prefix) /\ SubSeq(str, 1, Len(prefix)) = prefix

\* the literal lit stands at position i of str
Lit(str, i, lit) ==
    i + Len(lit) - 1 <= Len(str) /\ SubSeq(str, i, i + Len(lit) - 1) = lit

\* the first position >= i whose character is not in set
RECURSIVE SkipSet(_, _, _)
SkipSet(str, i, set) ==
    IF i <= Len(str) /\ At(str, i) \in set THEN SkipSet(str, i + 1, set) ELSE i

\* the last position <= i whose character is not in set (0 when none)
RECURSIVE SkipSetBack(_, _, _)
SkipSetBack(str, i, set) ==
    IF i >= 1 /\ At(str, i) \in set THEN SkipSetBack(str, i - 1, set) ELSE i

\* the position of the first ch at or after i, Len(str) + 1 when none
RECURSIVE Find(_, _, _)
Find(str, i, ch) ==
    IF i > Len(str) \/ At(str, i) = ch THEN i ELSE Find(str, i + 1, ch)

\* the first position >= i whose character is in set, Len(str) + 1 when none
RECURSIVE SkipUntil(_, _, _)
SkipUntil(str, i, set) ==
    IF i > Len(str) \/ At(str, i) \in set THEN i ELSE SkipUntil(str, i + 1, set)

\* str.lstrip(chars), chars a set of characters
LStrip(str, chars) == From(str, SkipSet(str, 1, chars))

\* str.strip()
Strip(str) ==
    LET b == SkipSet(str, 1, {" "})
        e == SkipSetBack(str, Len(str), {" "})
    IN  IF b > e THEN "" ELSE SubSeq(str, b, e)

\* str.split(" ", n): at most n cuts, empty parts are kept
RECURSIVE SplitN(_, _)
SplitN(str, n) ==
    LET p == Find(str, 1, " ")
    IN  IF n = 0 \/ p > Len(str)
        THEN <<str>>
        ELSE <<SubSeq(str, 1, p - 1)>> \o SplitN(From(str, p + 1), n - 1)

\* str.split(): cut at runs of blanks, no empty part
RECURSIVE Split(_)
Split(str) ==
    LET b == SkipSet(str, 1, {" "})
        e == Find(str, b, " ")
    IN  IF b > Len(str) THEN <<>>
        ELSE <<SubSeq(str, b, e - 1)>> \o Split(From(str, e))

\* sep.join(parts)
RECURSIVE Join(_, _)
Join(parts, sep) ==
    IF parts = <<>> THEN ""
    ELSE IF Len(parts) = 1 THEN parts[1]
    ELSE parts[1] \o sep \o Join(Tail(parts), sep)

\* sub occurs in str
Contains(str, sub) == \E i \in 1..Len(str) : Lit(str, i, sub)

(***************************************************************************)
(* model.py: the type expressions                                          *)
(***************************************************************************)
\* class LuaType; LuaTypeNil() is LuaType("nil"), and so on for Boolean, Number,
\* String, Function, Userdata, Thread, Table and Any
LuaType(name) == [id |-> name]
LuaTypeArray(lua_type) == [id |-> "array", type |-> lua_type]
LuaTypeCustom(name) == [id |-> "custom", name |-> name]
LuaTypeDict(key_type, value_type) ==
    [id |-> "dict", key_type |-> key_type, value_type |-> value_type]
\* arg_names defaults to None and no caller of the constructor passes it
LuaTypeCallable(arg_types, return_types) ==
    [id |-> "callable", arg_types |-> arg_types, arg_names |-> None,
     return_types |-> return_types]
LuaTypeOr(lua_types) == [id |-> "or", types |-> lua_types]

(***************************************************************************)
(* emmylua.py / luadoc.py: parse_type.  The two functions have the same    *)
(* text.  `type_str == ["table", "tab"]` compares a str with a list and is *)
(* never true; the userdata branch tests the word "userdate".              *)
(***************************************************************************)
parse_type(type_str) ==
    IF type_str = "nil" THEN LuaType("nil")
    ELSE IF type_str \in {"bool", "boolean"} THEN LuaType("boolean")
    ELSE IF type_str \in {"number", "int", "float"} THEN LuaType("number")
    ELSE IF type_str = "string" THEN LuaType("string")
    ELSE IF type_str \in {"function", "func", "fun"} THEN LuaType("function")
    ELSE IF type_str = "userdate" THEN LuaType("userdata")
    ELSE IF type_str = "thread" THEN LuaType("thread")
    ELSE IF FALSE THEN LuaType("table")
    ELSE IF type_str = "any" THEN LuaType("any")
    ELSE LuaTypeCustom(type_str)

(***************************************************************************)
(* emmylua.py: EMMY_LUA_TYPE_GRAMMAR, a PEG.  Each rule is an operator on  *)
(* (text, position) that returns whether it matched, the position after    *)
(* the match, and the nodes of the match that have a visit_ method, in the *)
(* order NodeVisitor visits them (children before their parent, left to    *)
(* right).  A choice that fails leaves no node behind.                     *)
(***************************************************************************)
Fail == [ok |-> FALSE, pos |-> 0, ev |-> <<>>]
Match(pos, ev) == [ok |-> TRUE, pos |-> pos, ev |-> ev]
Ev(rule, text) == [rule |-> rule, text |-> text]

\* s = " "*
s_(str, i) == SkipSet(str, i, {" "})

\* id = ~"[_a-zA-Z][_a-zA-Z0-9]*"
id(str, i) ==
    IF i <= Len(str) /\ At(str, i) \in IdStart
    THEN Match(SkipSet(str, i + 1, IdChar), <<>>)
    ELSE Fail

\* ("." id)*
RECURSIVE type_id_tail(_, _)
type_id_tail(str, i) ==
    IF ~Lit(str, i, ".") THEN i
    ELSE Let(id(str, i + 1), LAMBDA r :
             IF r.ok THEN type_id_tail(str, r.pos) ELSE i)

\* type_id = id ("." id)*
type_id(str, i) ==
    Let(id(str, i), LAMBDA r :
        IF ~r.ok THEN Fail
        ELSE Let(type_id_tail(str, r.pos), LAMBDA e :
                 Match(e, <<Ev("type_id", SubSeq(str, i, e - 1))>>)))

\* array = type_id s "[]"
array(str, i) ==
    Let(type_id(str, i), LAMBDA t :
        IF ~t.ok THEN Fail
        ELSE IF Lit(str, s_(str, t.pos), "[]")
        THEN Match(s_(str, t.pos) + 2, t.ev \o <<Ev("array", "")>>)
        ELSE Fail)

\* the rest of table after its key: s "," s type_id s ">" s
table_value(str, k) ==
    IF ~Lit(str, s_(str, k.pos), ",") THEN Fail
    ELSE Let(type_id(str, s_(str, s_(str, k.pos) + 1)), LAMBDA v :
             IF ~v.ok THEN Fail
             ELSE IF ~Lit(str, s_(str, v.pos), ">") THEN Fail
             ELSE Match(s_(str, s_(str, v.pos) + 1),
                        k.ev \o v.ev \o <<Ev("table", "")>>))

\* table = "table" s "<" s type_id s "," s type_id s ">" s
table(str, i) ==
    IF ~Lit(str, i, "table") THEN Fail
    ELSE IF ~Lit(str, s_(str, i + 5), "<") THEN Fail
    ELSE Let(type_id(str, s_(str, s_(str, i + 5) + 1)), LAMBDA k :
             IF ~k.ok THEN Fail ELSE table_value(str, k))

\* func_return = ":" s type_id
func_return(str, i) ==
    IF ~Lit(str, i, ":") THEN Fail
    ELSE Let(type_id(str, s_(str, i + 1)), LAMBDA t :
             IF ~t.ok THEN Fail
             ELSE Match(t.pos, t.ev \o <<Ev("func_return", "")>>))

RECURSIVE emmy_type(_, _)
RECURSIVE func_args_tail(_, _, _)

\* func_arg = func_arg_name s ":" s emmy_type ; func_arg_name = id s
func_arg(str, i) ==
    Let(id(str, i), LAMBDA n :
        IF ~n.ok THEN Fail
        ELSE IF ~Lit(str, s_(str, n.pos), ":") THEN Fail
        ELSE Let(emmy_type(str, s_(str, s_(str, n.pos) + 1)), LAMBDA t :
                 IF ~t.ok THEN Fail
                 ELSE Match(t.pos, t.ev \o <<Ev("func_arg", "")>>)))

\* (s "," s func_arg s)*
func_args_tail(str, i, ev) ==
    IF ~Lit(str, s_(str, i), ",") THEN Match(i, ev)
    ELSE Let(func_arg(str, s_(str, s_(str, i) + 1)), LAMBDA a :
             IF ~a.ok THEN Match(i, ev)
             ELSE func_args_tail(str, s_(str, a.pos), ev \o a.ev))

\* func_args = func_arg (s "," s func_arg s)*
func_args(str, i) ==
    Let(func_arg(str, i), LAMBDA a :
        IF ~a.ok THEN Fail
        ELSE Let(func_args_tail(str, a.pos, a.ev), LAMBDA r :
                 Match(r.pos, r.ev \o <<Ev("func_args", "")>>)))

\* the rest of func after its arguments: s ")" s func_return?
func_close(str, i, ev) ==
    IF ~Lit(str, s_(str, i), ")") THEN Fail
    ELSE Let(func_return(str, s_(str, s_(str, i) + 1)), LAMBDA r :
             IF r.ok THEN Match(r.pos, ev \o r.ev \o <<Ev("func", "")>>)
             ELSE Match(s_(str, s_(str, i) + 1), ev \o <<Ev("func", "")>>))

\* func = "fun" "(" s func_args? s ")" s func_return?
func(str, i) ==
    IF ~Lit(str, i, "fun(") THEN Fail
    ELSE Let(func_args(str, s_(str, i + 4)), LAMBDA a :
             IF a.ok THEN func_close(str, a.pos, a.ev)
             ELSE func_close(str, s_(str, i + 4), <<>>))

\* emmy_type = func / table / array / type_id
emmy_type(str, i) ==
    Let(func(str, i), LAMBDA f :
        IF f.ok THEN f
        ELSE Let(table(str, i), LAMBDA t :
                 IF t.ok THEN t
                 ELSE Let(array(str, i), LAMBDA a :
                          IF a.ok THEN a ELSE type_id(str, i))))

\* ("|" s emmy_type s)*
RECURSIVE emmy_type_or_tail(_, _, _)
emmy_type_or_tail(str, i, ev) ==
    IF ~Lit(str, i, "|") THEN Match(i, ev)
    ELSE Let(emmy_type(str, s_(str, i + 1)), LAMBDA t :
             IF ~t.ok THEN Match(i, ev)
             ELSE emmy_type_or_tail(str, s_(str, t.pos), ev \o t.ev))

\* emmy_type_or = emmy_type s ("|" s emmy_type s)*
emmy_type_or(str, i) ==
    Let(emmy_type(str, i), LAMBDA t :
        IF ~t.ok THEN Fail
        ELSE Let(emmy_type_or_tail(str, s_(str, t.pos), t.ev), LAMBDA r :
                 Match(r.pos, r.ev \o <<Ev("emmy_type_or", "")>>)))

\* (s "," s emmy_type_or)*
RECURSIVE emmy_type_desc_tail(_, _, _)
emmy_type_desc_tail(str, i, ev) ==
    IF ~Lit(str, s_(str, i), ",") THEN Match(i, ev)
    ELSE Let(emmy_type_or(str, s_(str, s_(str, i) + 1)), LAMBDA t :
             IF ~t.ok THEN Match(i, ev)
             ELSE emmy_type_desc_tail(str, t.pos, ev \o t.ev))

\* emmy_type_desc = emmy_type_or (s "," s emmy_type_or)* desc? ; desc = ~".*"
\* desc matches the rest of the line, the empty rest included
emmy_type_desc(str, i) ==
    Let(emmy_type_or(str, i), LAMBDA t :
        IF ~t.ok THEN Fail
        ELSE Let(emmy_type_desc_tail(str, t.pos, t.ev), LAMBDA r :
                 Match(Len(str) + 1, r.ev \o <<Ev("desc", From(str, r.pos))>>)))

(***************************************************************************)
(* emmylua.py: EmmyLuaParser, the visitor that builds the type             *)
(***************************************************************************)
EmmyLuaParser ==
    [types |-> <<>>, func_params |-> <<>>, func_returns |-> <<>>,
     func_arg_count_stack |-> <<0>>, desc |-> ""]

visit_func(p) ==
    [p EXCEPT !.types = Append(@, LuaTypeCallable(p.func_params, p.func_returns)),
              !.func_params = <<>>,
              !.func_returns = <<>>]

\* a variant that puts each argument before the ones already collected
visit_func_arg_reversed(p) ==
    [p EXCEPT !.func_arg_count_stack =
                  [@ EXCEPT ![Len(@)] = @ + 1],
              !.func_params = <<Last(p.types)>> \o @,
              !.types = Front(@)]

visit_func_arg(p) ==
    [p EXCEPT !.func_arg_count_stack =
                  [@ EXCEPT ![Len(@)] = @ + 1],
              !.func_params = Append(@, Last(p.types)),
              !.types = Front(@)]

visit_func_args(p) ==
    [p EXCEPT !.func_arg_count_stack = Append(@, 0)]

visit_func_return(p) ==
    [p EXCEPT !.func_returns = Append(@, Last(p.types)),
              !.types = Front(@)]

visit_table(p) ==
    [p EXCEPT !.types =
        Append(SubSeq(@, 1, Len(@) - 2), LuaTypeDict(@[Len(@) - 1], @[Len(@)]))]

\* a variant in which `[]` applies to all the types read so far
visit_array_whole(p) ==
    [p EXCEPT !.types =
        <<LuaTypeArray(IF Len(@) > 1 THEN LuaTypeOr(@) ELSE Last(@))>>]

visit_array(p) ==
    [p EXCEPT !.types = Append(Front(@), LuaTypeArray(Last(@)))]

visit_type_id(p, text) ==
    [p EXCEPT !.types = Append(@, parse_type(text))]

\* a variant that joins the last two types only
visit_emmy_type_or_pair(p) ==
    IF Len(p.types) > 1
    THEN [p EXCEPT !.types =
             Append(SubSeq(@, 1, Len(@) - 2), LuaTypeOr(SubSeq(@, Len(@) - 1, Len(@))))]
    ELSE p

visit_emmy_type_or(p) ==
    IF Len(p.types) > 1 THEN [p EXCEPT !.types = <<LuaTypeOr(p.types)>>] ELSE p

visit_desc(p, text) == [p EXCEPT !.desc = text]

\* NodeVisitor.visit of one node whose children have been visited
visit_node(p, e) ==
    CASE e.rule = "func" -> visit_func(p)
      [] e.rule = "func_arg" -> visit_func_arg(p)
      [] e.rule = "func_args" -> visit_func_args(p)
      [] e.rule = "func_return" -> visit_func_return(p)
      [] e.rule = "table" -> visit_table(p)
      [] e.rule = "array" -> visit_array(p)
      [] e.rule = "type_id" -> visit_type_id(p, e.text)
      [] e.rule = "emmy_type_or" -> visit_emmy_type_or(p)
      [] e.rule = "desc" -> visit_desc(p, e.text)

RECURSIVE visit_all(_, _)
visit_all(p, ev) ==
    IF ev = <<>> THEN p ELSE visit_all(visit_node(p, Head(ev)), Tail(ev))

\* parse_param_field: raised is "ParseError" when the grammar rejects the text
parse_param_field(input_str) ==
    Let(emmy_type_desc(input_str, 1), LAMBDA r :
        IF ~r.ok
        THEN [raised |-> "ParseError", type |-> None, desc |-> ""]
        ELSE Let(visit_all(EmmyLuaParser, r.ev), LAMBDA p :
                 [raised |-> "", type |-> p.types[1], desc |-> p.desc]))

(***************************************************************************)
(* The syntax tree (luaparser.astnodes), as far as luadoc reads it.        *)
(* Expressions: Name(id), String(s), Number(n), Nil, Index(idx, value),    *)
(* Varargs.  Statements: Chunk, Assign, LocalAssign, Function,             *)
(* LocalFunction, Method, each with the comment lines that precede it.     *)
(***************************************************************************)
Name(ident) == [type |-> "Name", id |-> ident]
String(str) == [type |-> "String", s |-> str]
Number(n) == [type |-> "Number", n |-> n]
Nil == [type |-> "Nil"]
Varargs == [type |-> "Varargs"]
Index(idx, value) == [type |-> "Index", idx |-> idx, value |-> value]

Chunk(comments) == [type |-> "Chunk", comments |-> comments, body |-> <<>>]
Assign(targets, values, comments) ==
    [type |-> "Assign", targets |-> targets, values |-> values, comments |-> comments]
LocalAssign(targets, values, comments) ==
    [type |-> "LocalAssign", targets |-> targets, values |-> values,
     comments |-> comments]
Function(name, args, comments) ==
    [type |-> "Function", name |-> name, args |-> args, body |-> <<>>,
     comments |-> comments]
LocalFunction(name, args, comments) ==
    [type |-> "LocalFunction", name |-> name, args |-> args, body |-> <<>>,
     comments |-> comments]
Method(source, name, args, comments) ==
    [type |-> "Method", source |-> source, name |-> name, args |-> args,
     body |-> <<>>, comments |-> comments]

\* astutils.IdentifierVisitor: the identifier left after visiting a list of nodes
RECURSIVE IdentifierVisitor(_, _)
IdentifierVisitor(nodes, identifier) ==
    IF nodes = <<>> THEN identifier
    ELSE LET n == Head(nodes)
             after ==
                 CASE n.type = "Name" -> n.id
                   [] n.type = "String" -> n.s
                   [] n.type = "Index" -> IdentifierVisitor(<<n.value, n.idx>>, identifier)
                   [] n.type \in {"Assign", "LocalAssign"} ->
                          IdentifierVisitor(n.targets, identifier)
                   [] n.type = "Function" ->
                          IdentifierVisitor(n.args \o n.body, identifier)
                   [] n.type = "LocalFunction" ->
                          IdentifierVisitor(<<n.name>>, identifier)
                   [] n.type = "Method" ->
                          IdentifierVisitor(<<n.source>> \o n.args \o n.body, identifier)
                   [] n.type = "Chunk" -> IdentifierVisitor(n.body, identifier)
                   [] OTHER -> identifier
         IN  IdentifierVisitor(Tail(nodes), after)

get_identifier(node) == IdentifierVisitor(<<node>>, "")

\* astutils.ValueVisitor: the literal left after visiting a list of nodes
NoValue == [type |-> "None"]
RECURSIVE ValueVisitor(_, _)
ValueVisitor(nodes, value) ==
    IF nodes = <<>> THEN value
    ELSE LET n == Head(nodes)
             after ==
                 CASE n.type \in {"String", "Number"} -> n
                   [] n.type = "Nil" -> NoValue
                   [] n.type = "Index" -> ValueVisitor(<<n.value, n.idx>>, value)
                   [] n.type \in {"Assign", "LocalAssign"} ->
                          ValueVisitor(n.values, value)
                   [] n.type = "Function" -> ValueVisitor(n.args \o n.body, value)
                   [] n.type = "LocalFunction" -> ValueVisitor(<<n.name>>, value)
                   [] n.type = "Method" ->
                          ValueVisitor(<<n.source>> \o n.args \o n.body, value)
                   [] n.type = "Chunk" -> ValueVisitor(n.body, value)
                   [] OTHER -> value
         IN  ValueVisitor(Tail(nodes), after)

get_value(node) == ValueVisitor(<<node>>, NoValue)

\* parser.read_index: (idx, value) of an Index as text
read_index(index) ==
    [idx |-> IF index.idx.type = "Name" THEN index.idx.id
             ELSE IF index.idx.type = "String" THEN index.idx.s ELSE "",
     value |-> IF index.value.type = "Name" THEN index.value.id ELSE ""]

\* parser.get_lua_function_name
get_lua_function_name(node) ==
    IF node.type = "Function"
    THEN IF node.name.type = "Index" THEN read_index(node.name).idx ELSE node.name.id
    ELSE "unknown"

(***************************************************************************)
(* model.py: the documentation entities.  An entity that the code shares   *)
(* by reference is a heap object; Param and Return are plain values.       *)
(***************************************************************************)
LuaParam(name, desc, lua_type, is_opt, default_value) ==
    [name |-> name, desc |-> desc, type |-> lua_type, is_opt |-> is_opt,
     default_value |-> default_value]
LuaReturn(desc, lua_type) == [desc |-> desc, type |-> lua_type]

LuaFunction(name, short_desc, desc, params, returns) ==
    [kind |-> "LuaFunction", name |-> name, short_desc |-> short_desc, desc |-> desc,
     params |-> params, returns |-> returns, usage |-> "",
     is_virtual |-> FALSE, is_abstract |-> FALSE, is_deprecated |-> FALSE,
     is_static |-> FALSE, visibility |-> "public"]
LuaClassField(name, desc, lua_type, visibility) ==
    [kind |-> "LuaClassField", name |-> name, desc |-> desc, type |-> lua_type,
     visibility |-> visibility]
LuaClass(name, name_in_source) ==
    [kind |-> "LuaClass", name |-> name, name_in_source |-> name_in_source,
     methods |-> <<>>, short_desc |-> "", desc |-> "", usage |-> "",
     inherits_from |-> <<>>, fields |-> <<>>]
LuaModule(name) ==
    [kind |-> "LuaModule", file_path |-> "", classes |-> <<>>, functions |-> <<>>,
     data |-> <<>>, name |-> name, is_class_mod |-> FALSE, short_desc |-> "",
     desc |-> "", usage |-> ""]
LuaValue(name, lua_type) ==
    [kind |-> "LuaValue", name |-> name, short_desc |-> "", desc |-> "",
     visibility |-> "private", constant |-> FALSE, type |-> lua_type,
     value |-> NoValue]
LuaVisibility_from_str == {"public", "protected", "private"}

\* DocOptions(): the defaults; file_path is the path given to the TreeVisitor
file_path == "unit.lua"
comment_prefix == "---"
private_prefix == "_"

(***************************************************************************)
(* parser.py: LuaDocParser.  `st` is the parser together with the heap,    *)
(* the diagnostics, the doc_nodes of the block being parsed, the value of  *)
(* the last handler call (ret) and the exception that is unwinding         *)
(* (raised, "" when none).                                                 *)
(***************************************************************************)
\* LuaDocParser.__init__
NewParser ==
    [pending_str |-> <<>>, pending_param |-> <<>>, pending_return |-> <<>>,
     pending_function |-> <<>>, pending_qualifiers |-> <<>>, pending_class |-> <<>>,
     pending_module |-> <<>>, pending_overload |-> <<>>, pending_data |-> <<>>,
     usage_in_progress |-> FALSE, usage_str |-> <<>>, exported |-> FALSE,
     constant |-> FALSE, namespace |-> ""]

ParserFields == DOMAIN NewParser

Alloc(st, obj) == [st EXCEPT !.heap = Append(@, obj), !.ret = Len(st.heap) + 1]
Ret(st, ref) == [st EXCEPT !.ret = ref]

\* report_error: logging.error, no exception leaves it
report_error(st, message) ==
    [st EXCEPT !.errors = Append(@, message), !.ret = None]

\* _get_short_desc_and_desc: the first pending line is popped, the rest is joined
short_desc_of(st) == IF st.pending_str # <<>> THEN Head(st.pending_str) ELSE ""
long_desc_of(st) ==
    IF st.pending_str # <<>> THEN Join(Tail(st.pending_str), "\n") ELSE ""
pop_short_desc(st) ==
    IF st.pending_str # <<>> THEN [st EXCEPT !.pending_str = Tail(@)] ELSE st

\* "if function pending, add param to it", else queue it
add_param(st, param) ==
    IF st.pending_function # <<>>
    THEN [st EXCEPT !.heap[Last(st.pending_function)].params = Append(@, param),
                    !.ret = None]
    ELSE [st EXCEPT !.pending_param = Append(@, param), !.ret = None]

add_return(st, return) ==
    IF st.pending_function # <<>>
    THEN [st EXCEPT !.heap[Last(st.pending_function)].returns = Append(@, return),
                    !.ret = None]
    ELSE [st EXCEPT !.pending_return = Append(@, return), !.ret = None]

\* DOC_CLASS_RE, the list after ':' : [\w.]+(?:\s*,\s*[\w.]+)* from position i,
\* the position after it
RECURSIVE class_bases_end(_, _)
class_bases_end(str, i) ==
    LET e == SkipSet(str, i, WordDotChar)
        c == s_(str, e)
        n == s_(str, c + 1)
    IN  IF Lit(str, c, ",") /\ n <= Len(str) /\ At(str, n) \in WordDotChar
        THEN class_bases_end(str, n)
        ELSE e

\* str.split(','), each part stripped
RECURSIVE split_bases(_)
split_bases(str) ==
    LET p == Find(str, 1, ",")
    IN  IF p > Len(str) THEN <<Strip(str)>>
        ELSE <<Strip(SubSeq(str, 1, p - 1))>> \o split_bases(From(str, p + 1))

\* DOC_CLASS_RE.search(params): ^([\w.]+)(?:\s*:\s*([\w.]+(?:\s*,\s*[\w.]+)*))?\s*@?(.*)$
DOC_CLASS_RE(params) ==
    LET e == SkipSet(params, 1, WordDotChar)
        c == s_(params, e)
        b == s_(params, c + 1)
        has_bases == Lit(params, c, ":") /\ b <= Len(params)
                     /\ At(params, b) \in WordDotChar
    IN  IF e = 1 THEN [match |-> FALSE, main_class |-> "", raw_bases |-> ""]
        ELSE [match |-> TRUE,
              main_class |-> SubSeq(params, 1, e - 1),
              raw_bases |-> IF has_bases
                            THEN SubSeq(params, b, class_bases_end(params, b) - 1)
                            ELSE ""]

_parse_class(st, params, ast_node) ==
    LET m == DOC_CLASS_RE(params)
        cls == [LuaClass(m.main_class, m.main_class) EXCEPT
                   !.inherits_from =
                       IF m.raw_bases # "" THEN split_bases(m.raw_bases) ELSE <<>>]
    IN  IF m.match
        THEN LET a == Alloc(st, cls)
             IN  [a EXCEPT !.pending_class = Append(@, a.ret)]
        ELSE report_error(st, "invalid @class tag")

_parse_usage(st, params, ast_node) ==
    [st EXCEPT !.usage_in_progress = TRUE, !.ret = None]

_parse_module(st, params, ast_node) ==
    LET a == Alloc(st, LuaModule(params))
    IN  [a EXCEPT !.pending_module = Append(@, a.ret)]

_parse_namespace(st, params, ast_node) ==
    [st EXCEPT !.namespace = params, !.ret = None]

_parse_overload(st, params, ast_node) ==
    Let(parse_param_field(params), LAMBDA r :
        IF r.raised = ""
        THEN [st EXCEPT !.pending_overload = Append(@, r.type), !.ret = None]
        ELSE report_error(st, "invalid @overload field"))

_parse_class_mod(st, params, ast_node) ==
    LET m == [LuaModule(params) EXCEPT
                 !.is_class_mod = TRUE,
                 !.desc = Join(st.pending_str, "\n"),
                 !.usage = IF st.usage_in_progress THEN Join(st.usage_str, "\n")
                           ELSE ""]
        a == Alloc(st, m)
    IN  [a EXCEPT !.usage_in_progress = FALSE,
                  !.pending_module = Append(@, a.ret)]

_parse_constant(st, params, ast_node) ==
    [st EXCEPT !.exported = TRUE, !.constant = TRUE, !.ret = None]

_parse_export(st, params, ast_node) ==
    [st EXCEPT !.exported = TRUE, !.ret = None]

_parse_tparam(st, params, ast_node, is_opt, default_value) ==
    LET parts == Split(params)
    IN  IF Len(parts) > 2
        THEN add_param(st, LuaParam(parts[2], Join(SubSeq(parts, 3, Len(parts)), " "),
                                    parse_type(parts[1]), is_opt, default_value))
        ELSE report_error(st, "invalid @tparam tag")

\* ^@tparam\[opt(?:\s*=\s*([^\].]*))?\] matched against the tag word, which holds
\* no blank; group 1 is "None" (str(None)) when the default is not given
tparam_opt_re(word) ==
    LET e == SkipUntil(word, 13, {"]", "."})
    IN  IF ~Lit(word, 1, "@tparam[opt") THEN [match |-> FALSE, group1 |-> ""]
        ELSE IF Lit(word, 12, "]") THEN [match |-> TRUE, group1 |-> "None"]
        ELSE IF Lit(word, 12, "=") /\ Lit(word, e, "]")
             THEN [match |-> TRUE, group1 |-> SubSeq(word, 13, e - 1)]
        ELSE [match |-> FALSE, group1 |-> ""]

_parse_tparam_opt_re(st, params, ast_node, match) ==
    _parse_tparam(st, params, ast_node, TRUE, match.group1)

\* a variant that documents a param whose type is missing or unparsable as `any`
\* instead of reporting it
_parse_emmy_lua_param_lenient(st, params, ast_node) ==
    LET parts == SplitN(params, 1)
    IN  IF Len(parts) < 2
        THEN add_param(st, LuaParam(parts[1], "", LuaType("any"), FALSE, ""))
        ELSE Let(parse_param_field(parts[2]), LAMBDA r :
                 IF r.raised # ""
                 THEN add_param(st, LuaParam(parts[1], "", LuaType("any"), FALSE, ""))
                 ELSE add_param(st, LuaParam(parts[1], r.desc, r.type, FALSE, "")))

_parse_emmy_lua_param(st, params, ast_node) ==
    LET parts == SplitN(params, 1)
    IN  IF Len(parts) < 2 THEN report_error(st, "invalid @param tag")
        ELSE Let(parse_param_field(parts[2]), LAMBDA r :
                 IF r.raised # "" THEN report_error(st, "invalid @param tag")
                 ELSE add_param(st, LuaParam(parts[1], r.desc, r.type, FALSE, "")))

_parse_string_param(st, params, ast_node) ==
    _parse_tparam(st, "string " \o params, ast_node, FALSE, "")

_parse_int_param(st, params, ast_node) ==
    _parse_tparam(st, "int " \o params, ast_node, FALSE, "")

_parse_treturn(st, params, ast_node) ==
    LET parts == Split(params)
    IN  IF Len(parts) >= 2
        THEN add_return(st, LuaReturn(Join(Tail(parts), " "), parse_type(parts[1])))
        ELSE report_error(st, "invalid @treturn tag")

_parse_type(st, params, ast_node) ==
    Let(parse_param_field(params), LAMBDA r :
        IF r.raised # "" THEN report_error(st, "invalid @type tag")
        ELSE LET a == Alloc(st, [LuaValue(get_identifier(ast_node), r.type) EXCEPT
                                    !.value = get_value(ast_node)])
             IN  [a EXCEPT !.pending_data = Append(@, a.ret)])

_parse_emmy_lua_return(st, params, ast_node) ==
    Let(parse_param_field(params), LAMBDA r :
        IF r.raised # "" THEN report_error(st, "invalid @return tag")
        ELSE add_return(st, LuaReturn(r.desc, r.type)))

_parse_varargs(st, params, ast_node) ==
    Let(parse_param_field(params), LAMBDA r :
        IF r.raised # "" THEN report_error(st, "invalid @param tag")
        ELSE add_param(st, LuaParam("...", r.desc, r.type, FALSE, "")))

\* @virtual, @abstract, @deprecated, @private, @protected
_parse_virtual(st, params, ast_node) ==
    IF st.pending_function # <<>>
    THEN [st EXCEPT !.heap[Last(st.pending_function)].is_virtual = TRUE, !.ret = None]
    ELSE [st EXCEPT !.pending_qualifiers = Append(@, "virtual"), !.ret = None]

_parse_abstract(st, params, ast_node) ==
    IF st.pending_function # <<>>
    THEN [st EXCEPT !.heap[Last(st.pending_function)].is_abstract = TRUE, !.ret = None]
    ELSE [st EXCEPT !.pending_qualifiers = Append(@, "abstract"), !.ret = None]

_parse_deprecated(st, params, ast_node) ==
    IF st.pending_function # <<>>
    THEN [st EXCEPT !.heap[Last(st.pending_function)].is_deprecated = TRUE,
                    !.ret = None]
    ELSE [st EXCEPT !.pending_qualifiers = Append(@, "deprecated"), !.ret = None]

_parse_private(st, params, ast_node) ==
    IF st.pending_function # <<>>
    THEN [st EXCEPT !.heap[Last(st.pending_function)].visibility = "private",
                    !.ret = None]
    ELSE [st EXCEPT !.pending_qualifiers = Append(@, "private"), !.ret = None]

_parse_protected(st, params, ast_node) ==
    IF st.pending_function # <<>>
    THEN [st EXCEPT !.heap[Last(st.pending_function)].visibility = "protected",
                    !.ret = None]
    ELSE [st EXCEPT !.pending_qualifiers = Append(@, "protected"), !.ret = None]

_parse_class_field(st, params, ast_node) ==
    LET parts == SplitN(params, 2)
        has_vis == parts[1] \in LuaVisibility_from_str
        field_visibility == IF has_vis THEN parts[1] ELSE "public"
        field_name == IF has_vis THEN parts[2] ELSE parts[1]
        field_type_desc == IF has_vis THEN parts[3] ELSE Join(Tail(parts), " ")
    IN  IF Len(parts) < 3 THEN report_error(st, "invalid @field tag")
        ELSE Let(parse_param_field(field_type_desc), LAMBDA r :
                 IF r.raised # "" THEN report_error(st, "invalid @field tag")
                 ELSE LET a == Alloc(st, LuaClassField(field_name, r.desc, r.type,
                                                       field_visibility))
                      IN  IF st.pending_class # <<>>
                          THEN [a EXCEPT !.heap[Last(st.pending_class)].fields =
                                             Append(@, a.ret)]
                          ELSE a)

\* FUNCTION_RE.search(params): ^(\w+(:|.)\w+), the '.' of the alternative is
\* unescaped and matches any character.  group 1, or no match.
FUNCTION_RE(params) ==
    LET k == SkipSet(params, 1, WordChar) - 1             \* the first run of \w
        e == SkipSet(params, k + 2, WordChar)             \* after the second run
    IN  IF k >= 1 /\ k + 2 <= Len(params) /\ At(params, k + 2) \in WordChar
        THEN [match |-> TRUE, group1 |-> SubSeq(params, 1, e - 1)]
        ELSE IF k >= 3
        THEN [match |-> TRUE, group1 |-> SubSeq(params, 1, k)]
        ELSE [match |-> FALSE, group1 |-> ""]

\* re.split('[:.]', name)
RECURSIVE split_colon_dot(_)
split_colon_dot(str) ==
    LET p == SkipUntil(str, 1, {":", "."})
    IN  IF p > Len(str) THEN <<str>>
        ELSE <<SubSeq(str, 1, p - 1)>> \o split_colon_dot(From(str, p + 1))

_parse_function(st, params, ast_node) ==
    LET m == FUNCTION_RE(params)
        short_desc == short_desc_of(st)
        long_desc == long_desc_of(st)
        st1 == pop_short_desc(st)
        name == m.group1
        parts == split_colon_dot(name)
    IN  IF ~m.match
        THEN Alloc(st1, LuaFunction(get_lua_function_name(ast_node), short_desc,
                                    long_desc, <<>>, <<>>))
        ELSE IF Contains(name, ":") \/ Contains(name, ".")
        THEN LET method == [LuaFunction(parts[2], "", "", <<>>, <<>>) EXCEPT
                               !.is_static = Contains(name, ".")]
                 a1 == Alloc(st1, method)
                 lua_class == [LuaClass(parts[1], "") EXCEPT !.methods = <<a1.ret>>]
                 a2 == Alloc(a1, lua_class)
             IN  [a2 EXCEPT !.pending_function = Append(@, a1.ret)]
        ELSE Alloc(st1, LuaFunction(name, short_desc, long_desc, <<>>, <<>>))

\* _create_function_overload.  `param.name in overload_def.arg_names` is evaluated
\* for each param of the original: arg_names is None for every type the grammar
\* builds (TypeError), and a type that is no callable has no such attribute
\* (AttributeError).
_create_function_overload(st, original, overload_def) ==
    LET o == st.heap[original]
        overload == [LuaFunction(o.name, o.short_desc, o.desc, <<>>, o.returns) EXCEPT
                        !.usage = o.usage,
                        !.is_virtual = o.is_virtual,
                        !.is_abstract = o.is_abstract,
                        !.is_deprecated = o.is_deprecated,
                        !.visibility = o.visibility]
    IN  IF o.params = <<>> THEN Alloc(st, overload)
        ELSE IF overload_def.id # "callable"
        THEN [st EXCEPT !.raised = "AttributeError", !.ret = None]
        ELSE [st EXCEPT !.raised = "TypeError", !.ret = None]

\* the tags of self._handlers
TagNames ==
    {"@abstract", "@class", "@classmod", "@constant", "@deprecated", "@export",
     "@field", "@function", "@int", "@module", "@namespace", "@overload", "@param",
     "@private", "@protected", "@return", "@string", "@tparam", "@treturn", "@type",
     "@usage", "@virtual", "@vararg"}

\* self._handlers[tag](params, ast_node), with DocOptions.emmy_lua_syntax = True
handle(st, tag, params, ast_node) ==
    CASE tag = "@abstract" -> _parse_abstract(st, params, ast_node)
      [] tag = "@class" -> _parse_class(st, params, ast_node)
      [] tag = "@classmod" -> _parse_class_mod(st, params, ast_node)
      [] tag = "@constant" -> _parse_constant(st, params, ast_node)
      [] tag = "@deprecated" -> _parse_deprecated(st, params, ast_node)
      [] tag = "@export" -> _parse_export(st, params, ast_node)
      [] tag = "@field" -> _parse_class_field(st, params, ast_node)
      [] tag = "@function" -> _parse_function(st, params, ast_node)
      [] tag = "@int" -> _parse_int_param(st, params, ast_node)
      [] tag = "@module" -> _parse_module(st, params, ast_node)
      [] tag = "@namespace" -> _parse_namespace(st, params, ast_node)
      [] tag = "@overload" -> _parse_overload(st, params, ast_node)
      [] tag = "@param" -> _parse_emmy_lua_param(st, params, ast_node)
      [] tag = "@private" -> _parse_private(st, params, ast_node)
      [] tag = "@protected" -> _parse_protected(st, params, ast_node)
      [] tag = "@return" -> _parse_emmy_lua_return(st, params, ast_node)
      [] tag = "@string" -> _parse_string_param(st, params, ast_node)
      [] tag = "@tparam" -> _parse_tparam(st, params, ast_node, FALSE, "")
      [] tag = "@treturn" -> _parse_treturn(st, params, ast_node)
      [] tag = "@type" -> _parse_type(st, params, ast_node)
      [] tag = "@usage" -> _parse_usage(st, params, ast_node)
      [] tag = "@virtual" -> _parse_virtual(st, params, ast_node)
      [] tag = "@vararg" -> _parse_varargs(st, params, ast_node)

\* _parse_comment: one comment line.  The value it returns is st.ret.
_parse_comment(st, comment, ast_node) ==
    LET text == LStrip(comment, {"-", " "})
        parts == SplitN(text, 1)
        params == IF Len(parts) > 1 THEN Strip(parts[2]) ELSE ""
        m == tparam_opt_re(parts[1])
    IN  IF ~StartsWith(comment, comment_prefix) THEN Ret(st, None)
        ELSE IF StartsWith(parts[1], "@")
        THEN IF parts[1] \in TagNames THEN handle(st, parts[1], params, ast_node)
             ELSE IF m.match
             THEN Ret(_parse_tparam_opt_re(st, params, ast_node, m), None)
             ELSE Ret(st, None)
        ELSE IF ~st.usage_in_progress
        THEN [st EXCEPT !.pending_str = Append(@, text), !.ret = None]
        ELSE [st EXCEPT !.usage_str = Append(@, From(comment, Len(comment_prefix) + 2)),
                        !.ret = None]

\* parse_comments, "reset pending list": every field but _namespace is assigned
reset_pending(st) ==
    [st EXCEPT !.pending_str = <<>>, !.pending_param = <<>>,
               !.pending_function = <<>>, !.pending_return = <<>>,
               !.pending_qualifiers = <<>>, !.pending_class = <<>>,
               !.pending_module = <<>>, !.usage_in_progress = FALSE,
               !.usage_str = <<>>, !.pending_overload = <<>>,
               !.pending_data = <<>>, !.exported = FALSE, !.constant = FALSE,
               !.doc_nodes = <<>>, !.ret = None]

\* parse_comments, the loop over the comment lines
RECURSIVE parse_lines(_, _, _)
parse_lines(st, comments, ast_node) ==
    IF comments = <<>> THEN st
    ELSE Let(_parse_comment(st, Head(comments), ast_node), LAMBDA r :
             parse_lines(IF r.ret # None
                         THEN [r EXCEPT !.doc_nodes = Append(@, r.ret)]
                         ELSE r,
                         Tail(comments), ast_node))

\* parse_comments, `if self._exported:`
resolve_export(st, ast_node) ==
    IF st.exported /\ ast_node.type \in {"LocalFunction", "Function"}
       /\ st.pending_function = <<>>
    THEN LET a == Alloc(pop_short_desc(st),
                        LuaFunction(get_identifier(ast_node), short_desc_of(st),
                                    long_desc_of(st), <<>>, <<>>))
         IN  [a EXCEPT !.pending_function = Append(@, a.ret),
                       !.doc_nodes = Append(@, a.ret)]
    ELSE st

\* parse_comments, "pending data"
resolve_data(st) ==
    IF st.pending_data # <<>>
    THEN [pop_short_desc(st) EXCEPT
             !.heap[Last(st.pending_data)] =
                 [@ EXCEPT !.short_desc = short_desc_of(st),
                           !.desc = long_desc_of(st),
                           !.visibility = IF st.exported THEN "public" ELSE @,
                           !.constant = st.constant]]
    ELSE st

\* parse_comments, "pending class"
resolve_class(st) ==
    IF st.pending_class # <<>>
    THEN [pop_short_desc(st) EXCEPT
             !.heap[Last(st.pending_class)] =
                 [@ EXCEPT !.short_desc = short_desc_of(st),
                           !.desc = long_desc_of(st),
                           !.usage = Join(st.usage_str, "\n")]]
    ELSE st

\* parse_comments, `if self._pending_function and self._pending_str:`
resolve_function_desc(st) ==
    IF st.pending_function # <<>> /\ st.pending_str # <<>>
    THEN [pop_short_desc(st) EXCEPT
             !.heap[Last(st.pending_function)] =
                 [@ EXCEPT !.short_desc = short_desc_of(st),
                           !.desc = long_desc_of(st)]]
    ELSE st

\* parse_comments, "handle pending doc_nodes": the anonymous function
resolve_pending(st, ast_node) ==
    IF (st.pending_param # <<>> \/ st.pending_return # <<>>
        \/ st.pending_qualifiers # <<>>)
       /\ ast_node.type \in {"Method", "Function"}
    THEN LET a == Alloc(pop_short_desc(st),
                        LuaFunction("", short_desc_of(st), long_desc_of(st), <<>>,
                                    st.pending_return))
         IN  [a EXCEPT !.doc_nodes = Append(@, a.ret)]
    ELSE st

\* the loop over self._pending_qualifiers
RECURSIVE apply_qualifiers(_, _)
apply_qualifiers(f, qualifiers) ==
    IF qualifiers = <<>> THEN f
    ELSE LET q == Head(qualifiers)
             g == CASE q = "virtual" -> [f EXCEPT !.is_virtual = TRUE]
                    [] q = "abstract" -> [f EXCEPT !.is_abstract = TRUE]
                    [] q = "deprecated" -> [f EXCEPT !.is_deprecated = TRUE]
                    [] q = "private" -> [f EXCEPT !.visibility = "private"]
                    [] q = "protected" -> [f EXCEPT !.visibility = "protected"]
         IN  apply_qualifiers(g, Tail(qualifiers))

\* the loop over self._pending_overload; an exception ends it
RECURSIVE expand_overloads(_, _, _)
expand_overloads(st, func_ref, overloads) ==
    IF overloads = <<>> \/ st.raised # "" THEN st
    ELSE LET a == _create_function_overload(st, func_ref, Head(overloads))
             a2 == IF a.raised = "" THEN [a EXCEPT !.doc_nodes = Append(@, a.ret)]
                   ELSE a
         IN  expand_overloads(a2, func_ref, Tail(overloads))

\* parse_comments, "handle function pending elements"
resolve_function(st) ==
    IF st.doc_nodes # <<>> /\ st.heap[Last(st.doc_nodes)].kind = "LuaFunction"
    THEN LET fr == Last(st.doc_nodes)
             f1 == apply_qualifiers(st.heap[fr], st.pending_qualifiers)
             f2 == IF st.usage_in_progress
                   THEN [f1 EXCEPT !.usage = Join(st.usage_str, "\n")] ELSE f1
             f3 == [f2 EXCEPT !.params = @ \o st.pending_param]
             st1 == [st EXCEPT !.heap[fr] = f3, !.pending_param = <<>>]
         IN  expand_overloads(st1, fr, st.pending_overload)
    ELSE st

\* parse_comments, "handle module pending elements"
resolve_module(st) ==
    IF st.pending_module # <<>>
    THEN [pop_short_desc(st) EXCEPT
             !.heap[Last(st.pending_module)] =
                 [@ EXCEPT !.usage = IF st.usage_str # <<>>
                                     THEN Join(st.usage_str, "\n") ELSE @,
                           !.short_desc = short_desc_of(st),
                           !.desc = long_desc_of(st)]]
    ELSE st

\* ".".join([self._namespace, x.name]) on one object
prefix_name(st, ref) ==
    [st EXCEPT !.heap[ref].name = st.namespace \o "." \o @]

\* parse_comments, `if self._namespace:`
resolve_namespace(st) ==
    IF st.namespace # ""
    THEN LET s1 == IF st.pending_class # <<>>
                   THEN prefix_name(st, Last(st.pending_class)) ELSE st
             s2 == IF st.pending_function # <<>>
                   THEN prefix_name(s1, Last(st.pending_function)) ELSE s1
         IN  IF st.pending_data # <<>>
             THEN prefix_name(s2, Last(st.pending_data)) ELSE s2
    ELSE st

\* what follows the overload loop, skipped when an exception unwinds
resolve_tail(st) == IF st.raised # "" THEN st ELSE resolve_namespace(resolve_module(st))

\* LuaDocParser.parse_comments: doc_nodes is st.doc_nodes, the second value
\* returned is st.pending_str
parse_comments(st, ast_node) ==
    resolve_tail(
      resolve_function(
        resolve_pending(
          resolve_function_desc(
            resolve_class(
              resolve_data(
                resolve_export(
                  parse_lines(reset_pending(st), ast_node.comments, ast_node),
                  ast_node)))),
          ast_node)))

(***************************************************************************)
(* parser.py: TreeVisitor.  `st` also carries _class_map, _function_list   *)
(* and _module.  _class_map is a dict: its keys keep their insertion       *)
(* order, and assigning to a key that exists keeps the key's place.        *)
(***************************************************************************)
InMap(class_map_, key) == \E i \in 1..Len(class_map_) : class_map_[i].key = key
MapGet(class_map_, key) ==
    class_map_[CHOOSE i \in 1..Len(class_map_) : class_map_[i].key = key].ref
MapPut(class_map_, key, ref) ==
    IF InMap(class_map_, key)
    THEN [i \in 1..Len(class_map_) |->
             IF class_map_[i].key = key THEN [key |-> key, ref |-> ref]
             ELSE class_map_[i]]
    ELSE Append(class_map_, [key |-> key, ref |-> ref])

\* isinstance(ast_node, Assign): luaparser declares LocalAssign a subclass of Assign
IsAssign(ast_node) == ast_node.type \in {"Assign", "LocalAssign"}
\* the node classes that have a `name` attribute
HasName(ast_node) == ast_node.type \in {"Function", "LocalFunction", "Method"}

\* TreeVisitor._add_class
_add_class(st, ldoc_node, ast_node) ==
    LET c == st.heap[ldoc_node]
        from_target == IsAssign(ast_node) /\ Len(ast_node.targets) = 1
                       /\ ast_node.targets[1].type = "Name"
        n1 == IF from_target THEN ast_node.targets[1].id ELSE c.name_in_source
        name_in_source == IF n1 = "" THEN c.name ELSE n1
        st1 == [st EXCEPT !.heap[ldoc_node].name_in_source = name_in_source]
    IN  IF InMap(st.class_map, c.name)
        THEN IF ~InMap(st.class_map, name_in_source)
             THEN [st1 EXCEPT !.raised = "KeyError"]
             ELSE LET cls == MapGet(st.class_map, name_in_source)
                  IN  [st1 EXCEPT !.heap[cls].methods = @ \o c.methods,
                                  !.heap[cls].fields = @ \o c.fields]
        ELSE [st1 EXCEPT !.class_map = MapPut(@, name_in_source, ldoc_node)]

\* TreeVisitor._check_function_args: the diagnostics it reports, in order
_check_function_args_errors(func_doc_node, func_ast_node) ==
    LET params == func_doc_node.params
        args == func_ast_node.args
        n == IF Len(params) < Len(args) THEN Len(params) ELSE Len(args)
        mismatch(i) == args[i].type # "Varargs" /\ params[i].name # args[i].id
        RECURSIVE pairs(_)
        pairs(i) ==
            IF i > n THEN <<>>
            ELSE (IF mismatch(i) THEN <<"doc param found, expected other">> ELSE <<>>)
                 \o pairs(i + 1)
    IN  IF func_ast_node.type # "Function" THEN <<>>
        ELSE (IF Len(params) > Len(args) THEN <<"too many documented params">>
              ELSE <<>>) \o pairs(1)

\* a variant that treats an inconsistency as fatal
_check_function_args_strict(st, func_doc_node, func_ast_node) ==
    IF _check_function_args_errors(st.heap[func_doc_node], func_ast_node) # <<>>
    THEN [st EXCEPT !.raised = "SyntaxException: inconsistent params"]
    ELSE st

_check_function_args(st, func_doc_node, func_ast_node) ==
    [st EXCEPT !.errors =
        @ \o _check_function_args_errors(st.heap[func_doc_node], func_ast_node)]

\* TreeVisitor._auto_private
_auto_private(st, func_ref) ==
    IF StartsWith(st.heap[func_ref].name, private_prefix)
    THEN [st EXCEPT !.heap[func_ref].visibility = "private"]
    ELSE st

\* _add_function, "check if we need to deduce ldoc_node.name from ast_node"
deduce_name(st, ldoc_node, ast_node) ==
    IF st.heap[ldoc_node].name # "" THEN st
    ELSE IF ~HasName(ast_node) THEN [st EXCEPT !.raised = "AttributeError"]
    ELSE IF ast_node.name.type = "Name" /\ ast_node.name.id # ""
    THEN [st EXCEPT !.heap[ldoc_node].name = ast_node.name.id]
    ELSE st

\* _add_function, the registration: in a class, in the module, in the pending
\* list, or (a Function node whose name is no Index) nowhere
register_function(st, ldoc_node, ast_node) ==
    IF ast_node.type = "Method"
    THEN LET class_name == ast_node.source.id
         IN  IF InMap(st.class_map, class_name)
             THEN [st EXCEPT !.heap[MapGet(st.class_map, class_name)].methods =
                                 Append(@, ldoc_node)]
             ELSE [st EXCEPT !.function_list = Append(@, ldoc_node)]
    ELSE IF ast_node.type = "Function"
    THEN IF ast_node.name.type = "Index"
         THEN LET r == read_index(ast_node.name)
                  st1 == [st EXCEPT !.heap[ldoc_node].name = r.idx,
                                    !.heap[ldoc_node].is_static = TRUE]
              IN  IF InMap(st.class_map, r.value)
                  THEN [st1 EXCEPT !.heap[MapGet(st.class_map, r.value)].methods =
                                       Append(@, ldoc_node)]
                  ELSE IF st.module # None /\ ~st.heap[st.module].is_class_mod
                  THEN [st1 EXCEPT !.heap[st.module].functions = Append(@, ldoc_node)]
                  ELSE st1
         ELSE st
    ELSE [st EXCEPT !.function_list = Append(@, ldoc_node)]

\* TreeVisitor._add_function
_add_function(st, ldoc_node, ast_node) ==
    LET s1 == deduce_name(st, ldoc_node, ast_node)
    IN  IF s1.raised # "" THEN s1
        ELSE _auto_private(
                 register_function(_check_function_args(s1, ldoc_node, ast_node),
                                   ldoc_node, ast_node),
                 ldoc_node)

\* a variant in which a later module silently replaces the earlier one
_add_module_replace(st, module_ref, ast_node) == [st EXCEPT !.module = module_ref]

\* TreeVisitor._add_module: a second module raises SyntaxException
_add_module(st, module_ref, ast_node) ==
    IF st.module = None THEN [st EXCEPT !.module = module_ref]
    ELSE [st EXCEPT !.raised = "SyntaxException: only one @module is allowed by file"]

\* TreeVisitor._add_data (and _add_dict, which has the same body)
_add_data(st, data, ast_node) ==
    IF st.module # None THEN [st EXCEPT !.heap[st.module].data = Append(@, data)]
    ELSE st

\* self._type_handler[type(n)](n, ast_node); a LuaClassField has no handler
route(st, n, ast_node) ==
    LET kind == st.heap[n].kind
    IN  CASE kind = "LuaClass" -> _add_class(st, n, ast_node)
          [] kind = "LuaFunction" -> _add_function(st, n, ast_node)
          [] kind = "LuaModule" -> _add_module(st, n, ast_node)
          [] kind = "LuaValue" -> _add_data(st, n, ast_node)
          [] OTHER -> st

RECURSIVE route_all(_, _, _)
route_all(st, ldoc_nodes, ast_node) ==
    IF ldoc_nodes = <<>> \/ st.raised # "" THEN st
    ELSE route_all(route(st, Head(ldoc_nodes), ast_node), Tail(ldoc_nodes), ast_node)

\* TreeVisitor._process_ldoc
_process_ldoc(st, ast_node) ==
    Let(parse_comments(st, ast_node), LAMBDA p :
        IF p.raised # "" THEN p ELSE route_all(p, p.doc_nodes, ast_node))

\* visit_Function, the loop over doc_nodes after _process_ldoc
RECURSIVE static_auto_class(_, _, _)
static_auto_class(st, doc_nodes, node) ==
    IF doc_nodes = <<>> THEN st
    ELSE LET is_func == st.heap[Head(doc_nodes)].kind = "LuaFunction"
             dotted == node.name.type = "Index" /\ node.name.idx.type = "Name"
                       /\ node.name.value.type = "Name"
             potential_cls_name == node.name.value.id
             a == Alloc(st, LuaClass(potential_cls_name, ""))
             func_model == Last(st.function_list)
             moved == [_check_function_args(a, func_model, node) EXCEPT
                          !.class_map = MapPut(@, potential_cls_name, a.ret),
                          !.function_list = Front(@),
                          !.heap[a.ret].methods = <<func_model>>]
             next == IF is_func /\ dotted
                        /\ ~InMap(st.class_map, potential_cls_name)
                        /\ st.function_list # <<>>
                     THEN moved ELSE st
         IN  static_auto_class(next, Tail(doc_nodes), node)

visit_Function(st, node) ==
    Let(_process_ldoc(st, node), LAMBDA p :
        IF p.raised # "" THEN p ELSE static_auto_class(p, p.doc_nodes, node))

\* TreeVisitor._auto_param_from_meth_ast
\* doc_param_dict is built once, from the params the doc node has on entry
RECURSIVE _auto_param_from_meth_ast(_, _, _)
_auto_param_from_meth_ast(doc_param_dict, params, args) ==
    IF args = <<>> THEN params
    ELSE LET arg == Head(args)
             known == arg.type = "Name" /\ arg.id \in doc_param_dict
             more == IF arg.type = "Name" /\ ~known
                     THEN Append(params, LuaParam(arg.id, "", LuaType("any"), FALSE, ""))
                     ELSE IF arg.type = "Varargs"
                     THEN Append(params, LuaParam("...", "", LuaType("any"), FALSE, ""))
                     ELSE params
         IN  _auto_param_from_meth_ast(doc_param_dict, more, Tail(args))

\* visit_Method, "auto-create class doc model"
method_auto_class(st, node) ==
    IF InMap(st.class_map, node.source.id) THEN st
    ELSE LET a == Alloc(st, LuaClass(node.source.id, ""))
             a1 == [a EXCEPT !.class_map = MapPut(@, node.source.id, a.ret)]
             func_model == Last(st.function_list)
         IN  IF st.doc_nodes = <<>> THEN a1
             ELSE IF st.function_list = <<>> THEN [a1 EXCEPT !.raised = "IndexError"]
             ELSE [_check_function_args(a1, func_model, node) EXCEPT
                      !.function_list = Front(@),
                      !.heap[a.ret].methods = <<func_model>>]

\* visit_Method, "auto-create method doc model"
method_auto_doc(st, node) ==
    IF st.doc_nodes # <<>> THEN st
    ELSE LET short_desc == IF Len(st.pending_str) > 0 THEN st.pending_str[1] ELSE ""
             desc == IF Len(st.pending_str) > 1 THEN Join(Tail(st.pending_str), " ")
                     ELSE ""
             f == LuaFunction(node.name.id, short_desc, desc,
                              _auto_param_from_meth_ast({}, <<>>, node.args), <<>>)
             a == Alloc(st, f)
         IN  IF InMap(st.class_map, node.source.id)
             THEN [a EXCEPT !.heap[MapGet(st.class_map, node.source.id)].methods =
                                Append(@, a.ret)]
             ELSE a

visit_Method(st, node) ==
    Let(_process_ldoc(st, node), LAMBDA p :
        IF p.raised # "" THEN p
        ELSE IF node.source.type = "Name" /\ node.name.type = "Name"
        THEN Let(method_auto_class(p, node), LAMBDA c :
                 IF c.raised # "" THEN c ELSE method_auto_doc(c, node))
        ELSE p)

\* visit_Chunk, visit_Assign, visit_LocalAssign, visit_LocalFunction: _process_ldoc
visit(st, node) ==
    CASE node.type = "Function" -> visit_Function(st, node)
      [] node.type = "Method" -> visit_Method(st, node)
      [] OTHER -> _process_ldoc(st, node)

\* the values of the class map, in key order
map_values(class_map_) == [i \in 1..Len(class_map_) |-> class_map_[i].ref]

\* a variant that takes the first class of the table when there are several
get_model_first(st) ==
    LET a == IF st.module # None THEN Ret(st, st.module)
             ELSE Alloc(st, LuaModule("unknown"))
        m == a.ret
        mod == a.heap[m]
        lua_class == a.class_map[1].ref
    IN  IF mod.is_class_mod
        THEN IF Len(a.class_map) = 0
             THEN [a EXCEPT !.raised =
                      "SyntaxException: in a @classmod, only one class is allowed",
                            !.ret = None]
             ELSE [a EXCEPT !.heap[m].file_path = file_path,
                            !.heap[lua_class].name = mod.name,
                            !.heap[lua_class].desc = mod.desc,
                            !.heap[lua_class].usage = mod.usage,
                            !.heap[m].classes = Append(@, lua_class),
                            !.heap[m].functions = @ \o a.function_list]
        ELSE [a EXCEPT !.heap[m].file_path = file_path,
                       !.heap[m].classes = @ \o map_values(a.class_map),
                       !.heap[m].functions = @ \o a.function_list]

\* TreeVisitor.get_model
get_model(st) ==
    LET a == IF st.module # None THEN Ret(st, st.module)
             ELSE Alloc(st, LuaModule("unknown"))
        m == a.ret
        mod == a.heap[m]
        lua_class == a.class_map[1].ref
    IN  IF mod.is_class_mod
        THEN IF Len(a.class_map) # 1
             THEN [a EXCEPT !.raised =
                      "SyntaxException: in a @classmod, only one class is allowed",
                            !.ret = None]
             ELSE [a EXCEPT !.heap[m].file_path = file_path,
                            !.heap[lua_class].name = mod.name,
                            !.heap[lua_class].desc = mod.desc,
                            !.heap[lua_class].usage = mod.usage,
                            !.heap[m].classes = Append(@, lua_class),
                            !.heap[m].functions = @ \o a.function_list]
        ELSE [a EXCEPT !.heap[m].file_path = file_path,
                       !.heap[m].classes = @ \o map_values(a.class_map),
                       !.heap[m].functions = @ \o a.function_list]

\* TreeVisitor.__init__
NewVisitor ==
    NewParser @@
    [heap |-> <<>>, errors |-> <<>>, raised |-> "", ret |-> None, doc_nodes |-> <<>>,
     class_map |-> <<>>, function_list |-> <<>>, module |-> None]

(***************************************************************************)
(* The inputs.  A unit is written with the comment lines and the           *)
(* statements of one vocabulary; a comment block has at most MaxLines      *)
(* lines, the chunk's own block at most MaxChunkLines, and a unit at most  *)
(* MaxNodes statements after the chunk.  A block keeps the vocabulary's    *)
(* order of lines.                                                         *)
(***************************************************************************)
MaxLines == 3
MaxChunkLines == 1
MaxNodes == 2

Vocabularies ==
    {"overload", "class", "private", "module", "args", "malformed", "malformed2",
     "malformed3", "routing", "explicit", "order", "export", "namespace", "usage",
     "naming", "auto"}

LinesOf(v) ==
    CASE v = "overload" ->
             <<"--- Adds two numbers", "---@param a number",
               "---@param b number the b", "---@overload fun(a: number)">>
      [] v = "class" ->
             <<"---@namespace ns", "---@class Foo", "---@field a number the a",
               "---@field public b string">>
      [] v = "private" ->
             <<"--- Internal helper", "---@function Foo:_m", "---@protected",
               "---@param a number">>
      [] v = "module" ->
             <<"---@module m", "---@classmod c", "---@class Foo", "--- The unit">>
      [] v = "args" ->
             <<"---@param a number", "---@param x number", "---@param b number",
               "---@return number">>
      [] v = "malformed" ->
             <<"---@class", "---@class Foo", "---@field x", "---@field a number">>
      [] v = "malformed2" ->
             <<"---@param a", "---@param b number", "---@return 123",
               "---@overload (">>
      [] v = "malformed3" ->
             <<"---@type ?", "---@tparam number a", "---@treturn number",
               "---@field public x 12", "---@return number">>
      [] v = "routing" ->
             <<"---@module m", "---@class Foo", "---@return number the sum",
               "---@overload fun()">>
      [] v = "explicit" ->
             <<"---@function add", "---@export", "---@param a number",
               "---@return number the sum">>
      [] v = "order" ->
             <<"---@param a number", "---@function Foo:bar", "---@function add",
               "---@tparam number b the b", "---@vararg number">>
      [] v = "export" ->
             <<"---@module m", "--- The answer", "---@export", "---@constant",
               "---@type number">>
      [] v = "namespace" ->
             <<"---@function add", "---@function Foo:bar", "---@namespace ns",
               "---@type number", "---@export">>
      [] v = "usage" ->
             <<"---@usage", "--- local c = Car()", "---@classmod c",
               "--- c:drive()">>
      [] v = "naming" ->
             <<"---@function f", "---@function Foo:m", "---@function Foo.s",
               "---@function">>
      [] v = "auto" ->
             <<"--- Drives the car", "--- Far away", "---@param a">>
      [] OTHER -> <<>>

ShapesOf(v) ==
    CASE v = "overload" ->
             {Function(Name("f"), <<Name("a"), Name("b")>>, <<>>),
              Method(Name("Foo"), Name("m"), <<Name("a"), Name("b")>>, <<>>)}
      [] v = "class" ->
             {Assign(<<Name("Foo")>>, <<Nil>>, <<>>),
              Assign(<<Name("Bar")>>, <<Nil>>, <<>>),
              LocalFunction(Name("f"), <<>>, <<>>)}
      [] v = "private" ->
             {Method(Name("Foo"), Name("_m"), <<Name("a")>>, <<>>),
              Function(Index(Name("_s"), Name("Foo")), <<Name("a")>>, <<>>),
              LocalFunction(Name("_l"), <<Name("a")>>, <<>>)}
      [] v = "module" ->
             {Assign(<<Name("Foo")>>, <<Nil>>, <<>>),
              LocalAssign(<<Name("x")>>, <<Number(1)>>, <<>>)}
      [] v = "args" ->
             {Function(Name("f"), <<Name("a"), Name("b")>>, <<>>),
              Function(Name("f"), <<Name("a"), Varargs>>, <<>>),
              Function(Name("f"), <<>>, <<>>)}
      [] v = "malformed" ->
             {Assign(<<Name("Foo")>>, <<Nil>>, <<>>),
              Function(Name("f"), <<Name("b")>>, <<>>)}
      [] v = "malformed2" ->
             {Function(Name("f"), <<Name("b")>>, <<>>),
              Method(Name("Foo"), Name("m"), <<Name("b")>>, <<>>)}
      [] v = "malformed3" ->
             {Function(Name("f"), <<>>, <<>>),
              LocalAssign(<<Name("x")>>, <<Number(1)>>, <<>>)}
      [] v = "routing" ->
             {Assign(<<Name("Foo")>>, <<Nil>>, <<>>),
              Method(Name("Foo"), Name("m"), <<>>, <<>>),
              Function(Index(Name("s"), Name("Foo")), <<>>, <<>>),
              LocalFunction(Name("g"), <<>>, <<>>)}
      [] v = "explicit" ->
             {Function(Name("add"), <<Name("a")>>, <<>>),
              Function(Index(Name("s"), Name("Foo")), <<Name("a")>>, <<>>),
              Method(Name("Foo"), Name("m"), <<Name("a")>>, <<>>),
              LocalFunction(Name("add"), <<Name("a")>>, <<>>)}
      [] v = "order" ->
             {LocalFunction(Name("add"), <<Name("a"), Name("b")>>, <<>>),
              LocalAssign(<<Name("x")>>, <<Number(1)>>, <<>>)}
      [] v = "export" ->
             {Assign(<<Name("x")>>, <<Number(1)>>, <<>>),
              LocalAssign(<<Name("x")>>, <<Number(1)>>, <<>>),
              Function(Name("add"), <<Name("a"), Name("b")>>, <<>>),
              LocalFunction(Name("add"), <<Name("a"), Name("b")>>, <<>>)}
      [] v = "namespace" ->
             {LocalFunction(Name("add"), <<>>, <<>>),
              LocalAssign(<<Name("x")>>, <<Number(1)>>, <<>>)}
      [] v = "usage" ->
             {Assign(<<Name("Car")>>, <<Nil>>, <<>>),
              LocalFunction(Name("g"), <<>>, <<>>)}
      [] v = "naming" ->
             {Function(Name("add"), <<>>, <<>>),
              LocalFunction(Name("g"), <<>>, <<>>)}
      [] v = "auto" ->
             {Method(Name("Car"), Name("drive"), <<Name("a"), Name("b")>>, <<>>),
              Method(Name("Car"), Name("drive"), <<Name("a"), Varargs>>, <<>>),
              Method(Name("Car"), Name("drive"), <<Name("a"), Name("a")>>, <<>>),
              Method(Name("Car"), Name("stop"), <<>>, <<>>)}
      [] OTHER -> {}

\* the elements of s whose index is in I, in the order of s
RECURSIVE Pick(_, _)
Pick(s, I) ==
    IF s = <<>> THEN <<>>
    ELSE IF Len(s) \in I THEN Append(Pick(Front(s), I), Last(s))
    ELSE Pick(Front(s), I)

\* the blocks of at most n lines written with the lines s
BlocksOf(s, n) ==
    {Pick(s, I) : I \in {J \in SUBSET (1..Len(s)) : Cardinality(J) <= n}}

Blocks(v, n) == BlocksOf(LinesOf(v), n)
\* the chunk's own block is written with the first lines of the vocabulary
ChunkBlocks(v, n) ==
    BlocksOf(SubSeq(LinesOf(v), 1, IF n < Len(LinesOf(v)) THEN n ELSE Len(LinesOf(v))),
             n)
WithComments(shape, comments) == [shape EXCEPT !.comments = comments]

(***************************************************************************)
(* DocParser.build_module_doc_model: the walk of one unit                  *)
(***************************************************************************)
\* the TreeVisitor and its parser, as one record
State ==
    parser @@
    [heap |-> heap, errors |-> errors, raised |-> "", ret |-> None,
     doc_nodes |-> <<>>, class_map |-> class_map, function_list |-> function_list,
     module |-> module]

\* the objects of the doc_nodes of st
Fragments(st) == [i \in 1..Len(st.doc_nodes) |-> st.heap[st.doc_nodes[i]]]

NoLast ==
    [node |-> Chunk(<<>>), doc_nodes |-> <<>>, pending_str |-> <<>>,
     fragments |-> <<>>, allocated |-> <<>>, heap_before |-> 0,
     errors_before |-> 0, errors_parsed |-> 0, namespace_before |-> "",
     module_before |-> None, parse_raised |-> ""]

\* visitor.visit(node) for one node: the state after it, and what
\* parser.parse_comments returned to _process_ldoc for it
Visit(node) ==
    \E r \in {visit(State, node)}, p \in {parse_comments(State, node)} :
        /\ heap' = r.heap
        /\ class_map' = r.class_map
        /\ function_list' = r.function_list
        /\ module' = r.module
        /\ parser' = [f \in ParserFields |-> r[f]]
        /\ errors' = r.errors
        /\ exc' = r.raised
        /\ pc' = IF r.raised # "" THEN "raised" ELSE "walk"
        /\ visited' = Append(visited, node)
        /\ last' = [node |-> node, doc_nodes |-> p.doc_nodes,
                    pending_str |-> p.pending_str, fragments |-> Fragments(p),
                    allocated |-> SubSeq(p.heap, Len(heap) + 1, Len(p.heap)),
                    heap_before |-> Len(heap), errors_before |-> Len(errors),
                    errors_parsed |-> Len(p.errors),
                    namespace_before |-> parser.namespace,
                    module_before |-> module,
                    parse_raised |-> p.raised]
        /\ UNCHANGED <<model, vocab>>
        /\ UNCHANGED type_vars
        /\ UNCHANGED batch_vars

\* visitor.visit(tree): the Chunk first
VisitChunk ==
    /\ pc = "start"
    /\ \E comments \in ChunkBlocks(vocab, MaxChunkLines) : Visit(Chunk(comments))

\* then the statements of its body, in order
VisitStatement(type) ==
    /\ pc = "walk"
    /\ Len(visited) <= MaxNodes
    /\ \E shape \in {x \in ShapesOf(vocab) : x.type = type},
          comments \in Blocks(vocab, MaxLines) :
            Visit(WithComments(shape, comments))

VisitAssign == VisitStatement("Assign")
VisitLocalAssign == VisitStatement("LocalAssign")
VisitFunction == VisitStatement("Function")
VisitLocalFunction == VisitStatement("LocalFunction")
VisitMethod == VisitStatement("Method")

\* return visitor.get_model()
GetModel ==
    /\ pc = "walk"
    /\ \E r \in {get_model(State)} :
           /\ heap' = r.heap
           /\ exc' = r.raised
           /\ pc' = IF r.raised # "" THEN "raised" ELSE "done"
           /\ model' = r.ret
    /\ UNCHANGED <<class_map, function_list, module, parser, errors, visited, last,
                   vocab>>
    /\ UNCHANGED type_vars
    /\ UNCHANGED batch_vars

TypeIdle ==
    /\ t_tree = None /\ t_input = "" /\ t_pc = "idle"
    /\ t_result = [raised |-> "", type |-> None, desc |-> ""]
BatchIdle ==
    /\ files = <<>> /\ futures = <<>> /\ collected = <<>> /\ batch_model = <<>>
    /\ batch_log = <<>> /\ jobs = 1 /\ batch_pc = "idle"
WalkIdle ==
    /\ heap = <<>> /\ class_map = <<>> /\ function_list = <<>> /\ module = None
    /\ parser = NewParser /\ errors = <<>> /\ exc = "" /\ model = None
    /\ visited = <<>> /\ last = NoLast

Init ==
    /\ WalkIdle
    /\ pc = "start"
    /\ vocab \in Vocabularies
    /\ TypeIdle
    /\ BatchIdle

Next ==
    \/ VisitChunk
    \/ VisitAssign
    \/ VisitLocalAssign
    \/ VisitFunction
    \/ VisitLocalFunction
    \/ VisitMethod
    \/ GetModel

Spec == Init /\ [][Next]_vars

(***************************************************************************)
(* emmylua.parse_param_field and luadoc.parse_type on one text.  The text  *)
(* is written from a type expression: a name, or a function type whose     *)
(* arguments are names or function types.                                  *)
(***************************************************************************)
MaxFunDepth == 2
MaxArgs == 2
MaxAlts == 3
MaxItems == 2

\* the words parse_type tests for, with the spellings its keyword table intends
Keywords ==
    {"nil", "bool", "boolean", "number", "int", "float", "string", "function",
     "func", "fun", "userdata", "thread", "table", "tab", "any"}
TypeNames == Keywords \cup {"Foo", "a.b"}

NameTree(n) == [k |-> "name", name |-> n, args |-> <<>>]
FunTree(args) == [k |-> "fun", name |-> "", args |-> args]
\* a function type with the return type named ret: fun(...) : ret
FunRetTree(args, ret) == [k |-> "funret", name |-> ret, args |-> args]
ArrayTree(t) == [k |-> "array", name |-> "", args |-> <<t>>]
TableTree(key, value) == [k |-> "table", name |-> "", args |-> <<key, value>>]
\* alternatives joined by `|`
OrTree(alts) == [k |-> "or", name |-> "", args |-> alts]
\* types separated by `,`
ListTree(items) == [k |-> "list", name |-> "", args |-> items]
\* a type followed by the description d
DescTree(t, d) == [k |-> "desc", name |-> d, args |-> <<t>>]

\* the sequences over S of length at most n
RECURSIVE SeqsUpTo(_, _)
SeqsUpTo(S, n) ==
    IF n = 0 THEN {<<>>}
    ELSE LET shorter == SeqsUpTo(S, n - 1)
         IN  shorter \cup
             {Append(q, x) : q \in {t \in shorter : Len(t) = n - 1}, x \in S}

\* the function types nested at most d deep, with at most one argument of
\* each function type being itself a function type
RECURSIVE FunTrees(_)
FunTrees(d) ==
    IF d = 0 THEN {}
    ELSE LET flat == SeqsUpTo({NameTree("string"), NameTree("number")}, MaxArgs)
         IN  {FunTree(a) : a \in flat}
             \cup UNION {{FunTree([a EXCEPT ![i] = f]) :
                             i \in 1..Len(a), f \in FunTrees(d - 1)} : a \in flat}

\* the sequences over S of length 2 to n
SeqsFrom2(S, n) == {q \in SeqsUpTo(S, n) : Len(q) >= 2}

Descs == {"", "the number table"}
\* one type of each form of emmy_type
Atoms ==
    {NameTree("string"), NameTree("number"), NameTree("Foo"),
     ArrayTree(NameTree("number")),
     TableTree(NameTree("string"), NameTree("number")),
     FunTree(<<NameTree("string")>>)}
\* T d and T1|...|Tn d
UnionTrees ==
    {DescTree(t, d) : t \in Atoms \cup {OrTree(a) : a \in SeqsFrom2(Atoms, MaxAlts)},
                      d \in Descs}
\* lists of types and unions, such as `a|b, c|d` and `number, string`
ListItems ==
    {NameTree("number"), NameTree("string"),
     OrTree(<<NameTree("Foo"), NameTree("string")>>),
     OrTree(<<NameTree("number"), NameTree("Bar")>>)}
ListTrees == {ListTree(q) : q \in SeqsFrom2(ListItems, MaxItems)}
\* table<K, V> d
TableTrees == {DescTree(TableTree(key, value), d) : key \in Atoms, value \in Atoms, d \in Descs}
\* X[]|Y[] d
ElementNames == {"number", "string", "Foo", "a.b"}
ArrayUnionTrees ==
    {DescTree(OrTree(<<ArrayTree(NameTree(x)), ArrayTree(NameTree(y))>>), d) :
        x \in ElementNames, y \in ElementNames, d \in Descs}
\* fun(a1: T1, ..., ak: Tk) : R without a nested function
FlatArgs ==
    {NameTree("string"), NameTree("number"), ArrayTree(NameTree("number")),
     TableTree(NameTree("string"), NameTree("number"))}
FlatFunTrees ==
    {FunRetTree(a, ret) : a \in SeqsUpTo(FlatArgs, MaxArgs), ret \in {"nil", "number", "Foo"}}

TypeTrees ==
    {NameTree(n) : n \in TypeNames} \cup FunTrees(MaxFunDepth) \cup UnionTrees
    \cup ListTrees \cup TableTrees \cup ArrayUnionTrees \cup FlatFunTrees

\* the name of the k-th argument of a function type at nesting level `level`
ArgName(level, k) ==
    IF level % 2 = 0 THEN <<"s", "f", "g", "h">>[k] ELSE <<"i", "j", "k", "l">>[k]

\* the text of a type expression, in the syntax of EMMY_LUA_TYPE_GRAMMAR
RECURSIVE Render(_, _)
RECURSIVE RenderArgs(_, _, _)
RECURSIVE RenderSep(_, _, _, _)
Render(t, level) ==
    CASE t.k = "name" -> t.name
      [] t.k = "fun" -> "fun(" \o RenderArgs(t.args, 1, level) \o ")"
      [] t.k = "funret" -> "fun(" \o RenderArgs(t.args, 1, level) \o ") : " \o t.name
      [] t.k = "array" -> Render(t.args[1], level) \o "[]"
      [] t.k = "table" -> "table<" \o RenderSep(t.args, 1, ", ", level) \o ">"
      [] t.k = "or" -> RenderSep(t.args, 1, "|", level)
      [] t.k = "list" -> RenderSep(t.args, 1, ", ", level)
      [] t.k = "desc" -> Render(t.args[1], level)
                         \o (IF t.name = "" THEN "" ELSE " " \o t.name)
RenderSep(items, k, sep, level) ==
    IF k > Len(items) THEN ""
    ELSE (IF k > 1 THEN sep ELSE "") \o Render(items[k], level)
         \o RenderSep(items, k + 1, sep, level)
RenderArgs(args, k, level) ==
    IF k > Len(args) THEN ""
    ELSE (IF k > 1 THEN ", " ELSE "") \o ArgName(level, k) \o ": "
         \o Render(args[k], level + 1) \o RenderArgs(args, k + 1, level)

\* emmylua.parse_param_field(t_input)
ParseParamField ==
    /\ t_pc = "start"
    /\ t_result' = parse_param_field(t_input)
    /\ t_pc' = "parsed"
    /\ UNCHANGED <<t_tree, t_input>>
    /\ UNCHANGED walk_vars
    /\ UNCHANGED batch_vars

\* luadoc.parse_type(t_input)
ParseType ==
    /\ t_pc = "start"
    /\ t_result' = [raised |-> "", type |-> parse_type(t_input), desc |-> ""]
    /\ t_pc' = "word"
    /\ UNCHANGED <<t_tree, t_input>>
    /\ UNCHANGED walk_vars
    /\ UNCHANGED batch_vars

InitTypes ==
    /\ WalkIdle
    /\ pc = "idle"
    /\ vocab = ""
    /\ BatchIdle
    /\ t_tree \in TypeTrees
    /\ t_input = Render(t_tree, 0)
    /\ t_pc = "start"
    /\ t_result = [raised |-> "", type |-> None, desc |-> ""]

NextTypes ==
    \/ ParseParamField
    \/ ParseType

SpecTypes == InitTypes /\ [][NextTypes]_vars

(***************************************************************************)
(* core.py: FilesProcessor.run.  A file stands for what _process_one does  *)
(* with it: it returns a Module ("ok") or raises.  The Module built for    *)
(* the i-th file is written i.                                             *)
(***************************************************************************)
MaxFiles == 3
MaxJobs == 2

Outcomes == {"ok", "SyntaxException", "OSError"}

Running == {i \in 1..Len(futures) : futures[i] = "running"}
Pending == {i \in 1..Len(futures) : futures[i] = "pending"}
Completed == {i \in 1..Len(futures) : futures[i] \in {"ok", "raised"}}

\* executor.submit(self._process_one, file), for the files in order
Submit ==
    /\ batch_pc = "run"
    /\ Len(futures) < Len(files)
    /\ futures' = Append(futures, "pending")
    /\ collected' = Append(collected, FALSE)
    /\ UNCHANGED <<files, batch_model, batch_log, jobs, batch_pc>>
    /\ UNCHANGED walk_vars
    /\ UNCHANGED type_vars

\* a worker thread takes the oldest queued work item; at most max_workers threads
Start ==
    /\ batch_pc = "run"
    /\ Pending # {}
    /\ Cardinality(Running) < jobs
    /\ \E i \in Pending :
           /\ \A j \in Pending : i <= j
           /\ futures' = [futures EXCEPT ![i] = "running"]
    /\ UNCHANGED <<files, collected, batch_model, batch_log, jobs, batch_pc>>
    /\ UNCHANGED walk_vars
    /\ UNCHANGED type_vars

\* _process_one returns or raises in its thread
Finish ==
    /\ batch_pc = "run"
    /\ \E i \in Running :
           futures' = [futures EXCEPT
                          ![i] = IF files[i] = "ok" THEN "ok" ELSE "raised"]
    /\ UNCHANGED <<files, collected, batch_model, batch_log, jobs, batch_pc>>
    /\ UNCHANGED walk_vars
    /\ UNCHANGED type_vars

\* a variant that appends whatever the future holds
collect_result_always(model_, future, i) == Append(model_, i)

\* the body of the try: model.append(future.result()), which raises what the
\* call raised
collect_result(model_, future, i) ==
    IF future = "ok" THEN Append(model_, i) ELSE model_

\* one turn of `for future in as_completed(future_to_file)`
Collect ==
    /\ batch_pc = "run"
    /\ Len(futures) = Len(files)
    /\ \E i \in Completed :
           /\ ~collected[i]
           /\ collected' = [collected EXCEPT ![i] = TRUE]
           /\ batch_model' = collect_result(batch_model, futures[i], i)
           /\ batch_log' = IF futures[i] = "raised" THEN Append(batch_log, i)
                           ELSE batch_log
    /\ UNCHANGED <<files, futures, jobs, batch_pc>>
    /\ UNCHANGED walk_vars
    /\ UNCHANGED type_vars

\* as_completed is exhausted, the executor shuts down, run returns model
Return ==
    /\ batch_pc = "run"
    /\ Len(futures) = Len(files)
    /\ \A i \in 1..Len(files) : collected[i]
    /\ batch_pc' = "returned"
    /\ UNCHANGED <<files, futures, collected, batch_model, batch_log, jobs>>
    /\ UNCHANGED walk_vars
    /\ UNCHANGED type_vars

InitBatch ==
    /\ WalkIdle
    /\ pc = "idle"
    /\ vocab = ""
    /\ TypeIdle
    /\ files \in SeqsUpTo(Outcomes, MaxFiles)
    /\ jobs \in 1..MaxJobs
    /\ futures = <<>>
    /\ collected = <<>>
    /\ batch_model = <<>>
    /\ batch_log = <<>>
    /\ batch_pc = "run"

NextBatch ==
    \/ Submit
    \/ Start
    \/ Finish
    \/ Collect
    \/ Return

SpecBatch == InitBatch /\ [][NextBatch]_vars

(***************************************************************************)
(* The properties                                                          *)
(***************************************************************************)
Range(seq) == {seq[i] : i \in 1..Len(seq)}
ParamNames(f) == [i \in 1..Len(f.params) |-> f.params[i].name]
Count(seq, x) == Cardinality({i \in 1..Len(seq) : seq[i] = x})

\* the parser of a TreeVisitor that has processed no block, placed before the
\* objects the last block allocated
FreshBefore == [NewVisitor EXCEPT !.heap = SubSeq(heap, 1, last.heap_before)]
\* the same, with the namespace the parser had when the last block began
Before == [FreshBefore EXCEPT !.namespace = last.namespace_before]
\* the objects st allocated after the last block began
AllocatedBy(st) == SubSeq(st.heap, last.heap_before + 1, Len(st.heap))

OverloadBlock ==
    <<"---@param a number", "---@param b number the b", "---@overload fun(a: number)">>

\* C1: a block with `@param a`, `@param b` and `@overload fun(a: T)` on a function
\* resolves without raising into two Function fragments: the original with the
\* params a and b, then a clone that differs from it only in carrying a alone.
C1_OverloadExpansion ==
    (last.node.type \in {"Function", "Method"} /\ last.node.comments = OverloadBlock)
    => /\ last.parse_raised = ""
       /\ Len(last.fragments) = 2
       /\ last.fragments[1].kind = "LuaFunction"
       /\ last.fragments[2].kind = "LuaFunction"
       /\ ParamNames(last.fragments[1]) = <<"a", "b">>
       /\ ParamNames(last.fragments[2]) = <<"a">>
       /\ [last.fragments[2] EXCEPT !.params = <<>>]
          = [last.fragments[1] EXCEPT !.params = <<>>]

ClassBlockLines ==
    {"---@namespace ns", "---@class Foo", "---@field a number the a",
     "---@field public b string"}
\* a block that declares `@class Foo` on a single-target assignment
DeclaresFoo(node) ==
    /\ node.type = "Assign"
    /\ Len(node.targets) = 1
    /\ "---@class Foo" \in Range(node.comments)
    /\ Range(node.comments) \subseteq ClassBlockLines
\* the names of the fields a block declares, in order
DeclaredFields(comments) ==
    (IF "---@field a number the a" \in Range(comments) THEN <<"a">> ELSE <<>>)
    \o (IF "---@field public b string" \in Range(comments) THEN <<"b">> ELSE <<>>)
FieldNames(class) == [i \in 1..Len(class.fields) |-> heap[class.fields[i]].name]

\* C2: after two blocks that declare `@class Foo` on assignments to the same
\* identifier S, the walk has not raised, the class table holds one entry for S,
\* and its fields are the first block's followed by the second block's.
C2_ClassMerge ==
    (/\ Len(visited) = 3
     /\ DeclaresFoo(visited[2])
     /\ DeclaresFoo(visited[3])
     /\ visited[2].targets = visited[3].targets)
    => /\ exc = ""
       /\ Count([i \in 1..Len(class_map) |-> class_map[i].key],
                visited[2].targets[1].id) = 1
       /\ FieldNames(heap[MapGet(class_map, visited[2].targets[1].id)])
          = DeclaredFields(visited[2].comments) \o DeclaredFields(visited[3].comments)

\* the functions of the final model: the module's and its classes' methods
ModelFunctions ==
    Range(heap[model].functions)
    \cup UNION {Range(heap[c].methods) : c \in Range(heap[model].classes)}

\* C3: every function of the final model whose name starts with the private
\* prefix is Private.
C3_AutoPrivacy ==
    pc = "done" =>
        \A f \in ModelFunctions :
            StartsWith(heap[f].name, private_prefix) => heap[f].visibility = "private"

DuplicateModule == "SyntaxException: only one @module is allowed by file"
ModuleTags(comments) ==
    Cardinality({i \in 1..Len(comments) :
                    \/ StartsWith(comments[i], "---@module ")
                    \/ StartsWith(comments[i], "---@classmod ")})
RECURSIVE ModuleTagsIn(_)
ModuleTagsIn(nodes) ==
    IF nodes = <<>> THEN 0
    ELSE ModuleTags(Head(nodes).comments) + ModuleTagsIn(Tail(nodes))
\* the Module fragments of the last block, plus the module registered before it
ModulesRouted ==
    Count([i \in 1..Len(last.fragments) |-> last.fragments[i].kind], "LuaModule")
    + (IF last.module_before # None THEN 1 ELSE 0)

\* C4: routing a second Module fragment raises the duplicate-module failure; a
\* walk that has raised takes no further step and returns no Module; a unit with
\* at most one @module/@classmod tag never raises that failure.
C4_DuplicateModuleFatal ==
    /\ (ModulesRouted >= 2 /\ last.parse_raised = "")
       => (exc = DuplicateModule /\ pc = "raised")
    /\ exc = DuplicateModule => (ModulesRouted >= 2 /\ ModuleTagsIn(visited) >= 2)
    /\ pc = "raised" => (model = None /\ exc # "" /\ ~ENABLED Next)
    /\ ModuleTagsIn(visited) <= 1 => exc # DuplicateModule

\* a second @module tag, in a later block than the first, has stopped the walk
C4_Witness ==
    /\ exc = DuplicateModule
    /\ last.module_before # None
    /\ Len(visited) = 3

\* the condition _check_function_args reports: more documented params than
\* arguments, or a name that differs from the argument at its position
Mismatch(params, args) ==
    \/ Len(params) > Len(args)
    \/ \E i \in 1..Len(params) :
           i <= Len(args) /\ args[i].type # "Varargs" /\ params[i].name # args[i].id
MismatchedFragments ==
    {i \in 1..Len(last.fragments) :
        /\ last.fragments[i].kind = "LuaFunction"
        /\ Mismatch(last.fragments[i].params, last.node.args)}

\* C5: when a Function fragment of a plain function declaration mismatches the
\* declaration, a diagnostic is reported while the fragment is routed, nothing is
\* raised, the walk goes on, and the fragment keeps its params as documented.
C5_ParamMismatchNonFatal ==
    (last.node.type = "Function" /\ last.parse_raised = ""
     /\ MismatchedFragments # {})
    => /\ exc = ""
       /\ pc \in {"walk", "done"}
       /\ Len(errors) > last.errors_parsed
       /\ \A i \in MismatchedFragments :
              heap[last.doc_nodes[i]].params = last.fragments[i].params

\* `@param x` documented for function f(a, b): reported, kept, the walk goes on
C5_Witness ==
    /\ last.node.type = "Function"
    /\ last.node.args = <<Name("a"), Name("b")>>
    /\ last.parse_raised = ""
    /\ \E i \in MismatchedFragments : ParamNames(last.fragments[i]) = <<"x", "b">>
    /\ Len(errors) > last.errors_parsed
    /\ pc = "walk"

\* C6: when run returns, every unit has been processed, the list holds exactly one
\* Module for each unit that did not raise and none for one that raised, every
\* unit that raised is logged; and until it returns, run can always take a step.
C6_BatchIsolation ==
    /\ batch_pc = "returned" =>
           /\ \A i \in 1..Len(files) :
                  /\ futures[i] = (IF files[i] = "ok" THEN "ok" ELSE "raised")
                  /\ Count(batch_model, i) = (IF files[i] = "ok" THEN 1 ELSE 0)
                  /\ Count(batch_log, i) = (IF files[i] = "ok" THEN 0 ELSE 1)
           /\ Len(batch_model) = Count(files, "ok")
    /\ batch_pc = "run" => ENABLED NextBatch

\* a unit that raised between two that did not: both Modules are returned
C6_Witness ==
    /\ batch_pc = "returned"
    /\ files = <<"ok", "SyntaxException", "ok">>
    /\ Range(batch_model) = {1, 3}
    /\ batch_log = <<2>>

\* the malformed tag lines of the vocabularies, one for each case
MalformedLines ==
    {"---@class", "---@field x", "---@param a", "---@return 123", "---@overload (",
     "---@type ?", "---@field public x 12", "---@tparam number a",
     "---@treturn number"}
WellFormed(comments) == SelectSeq(comments, LAMBDA line : line \notin MalformedLines)
WithoutMalformed(node) == [node EXCEPT !.comments = WellFormed(@)]
MalformedCount(node) == Len(node.comments) - Len(WellFormed(node.comments))

\* C7: a block with malformed tag lines is parsed with the result of the same
\* block without them (same exception or none, same fragments and objects, same
\* pending text), plus one diagnostic for each malformed line.
C7_TagSyntaxErrorsRecoverable ==
    MalformedCount(last.node) > 0 =>
        LET clean == parse_comments(Before, WithoutMalformed(last.node))
        IN  /\ last.parse_raised = ""
            /\ clean.raised = ""
            /\ last.doc_nodes = clean.doc_nodes
            /\ last.allocated = AllocatedBy(clean)
            /\ last.pending_str = clean.pending_str
            /\ last.errors_parsed - last.errors_before
               = MalformedCount(last.node) + Len(clean.errors)

\* `@param a` without a type before a well-formed `@param b number` on f(b)
C7_Witness ==
    /\ last.node.type = "Function"
    /\ last.node.comments = <<"---@param a", "---@param b number">>
    /\ Len(last.fragments) = 1
    /\ ParamNames(last.fragments[1]) = <<"b">>
    /\ last.errors_parsed = last.errors_before + 1

\* C8: the fragments and objects a block produces are those a parser that has
\* processed no block produces for it.
C8_PerBlockReset ==
    LET fresh == parse_comments(FreshBefore, last.node)
    IN  /\ last.doc_nodes = fresh.doc_nodes
        /\ last.allocated = AllocatedBy(fresh)

\* the type a type expression declares
RECURSIVE DeclaredType(_)
DeclaredType(t) ==
    IF t.k = "fun"
    THEN LuaTypeCallable([i \in 1..Len(t.args) |-> DeclaredType(t.args[i])], <<>>)
    ELSE IF t.name = "string" THEN LuaType("string")
    ELSE IF t.name = "number" THEN LuaType("number")
    ELSE LuaTypeCustom(t.name)

\* C9: a function type parses into a Callable whose argument types are those
\* declared between its own parentheses, in order, nested function types included.
C9_NestedFunctionTypes ==
    (t_pc = "parsed" /\ t_tree.k = "fun")
    => (t_result.raised = "" /\ t_result.type = DeclaredType(t_tree))

\* the primitive type of a keyword of the table
Primitive(keyword) ==
    CASE keyword = "nil" -> LuaType("nil")
      [] keyword \in {"bool", "boolean"} -> LuaType("boolean")
      [] keyword \in {"number", "int", "float"} -> LuaType("number")
      [] keyword = "string" -> LuaType("string")
      [] keyword \in {"function", "func", "fun"} -> LuaType("function")
      [] keyword = "userdata" -> LuaType("userdata")
      [] keyword = "thread" -> LuaType("thread")
      [] keyword \in {"table", "tab"} -> LuaType("table")
      [] keyword = "any" -> LuaType("any")

\* C10: a keyword alone parses, by either parse_type and by the grammar, into its
\* primitive type with an empty description, and a name that is no keyword into
\* Custom(name).
C10_PrimitiveKeywords ==
    (t_pc \in {"parsed", "word"} /\ t_tree.k = "name")
    => /\ t_result.raised = ""
       /\ t_result.desc = ""
       /\ t_result.type = (IF t_input \in Keywords THEN Primitive(t_input)
                           ELSE LuaTypeCustom(t_input))

\* the type a type expression denotes
RECURSIVE TypeOf(_)
TypeOf(t) ==
    CASE t.k = "name" ->
             IF t.name \in Keywords THEN Primitive(t.name) ELSE LuaTypeCustom(t.name)
      [] t.k = "array" -> LuaTypeArray(TypeOf(t.args[1]))
      [] t.k = "table" -> LuaTypeDict(TypeOf(t.args[1]), TypeOf(t.args[2]))
      [] t.k = "fun" ->
             LuaTypeCallable([i \in 1..Len(t.args) |-> TypeOf(t.args[i])], <<>>)
      [] t.k = "funret" ->
             LuaTypeCallable([i \in 1..Len(t.args) |-> TypeOf(t.args[i])],
                             <<TypeOf(NameTree(t.name))>>)
      [] t.k = "or" -> LuaTypeOr([i \in 1..Len(t.args) |-> TypeOf(t.args[i])])

\* C11: `T1|...|Tn d` with n >= 2 parses into an Or of the n types in order with
\* the description d, and a single type followed by d parses into that type, which
\* is no Or, with the description d.
C11_UnionParsing ==
    (t_pc = "parsed" /\ t_tree \in UnionTrees)
    => /\ t_result.raised = ""
       /\ t_result.type = TypeOf(t_tree.args[1])
       /\ t_result.desc = t_tree.name
       /\ (t_result.type.id = "or") = (t_tree.args[1].k = "or")

\* `number|string|Foo the number table`: three alternatives and the description
C11_Witness ==
    /\ t_pc = "parsed"
    /\ t_input = "number|string|Foo the number table"
    /\ t_result.type
       = LuaTypeOr(<<LuaType("number"), LuaType("string"), LuaTypeCustom("Foo")>>)
    /\ t_result.desc = "the number table"

\* C12: the type parsed from an accepted payload has no Or directly inside an Or,
\* and is an Or only when the payload joins alternatives with `|`.
C12_OrIsFlat ==
    (t_pc = "parsed" /\ t_result.raised = "")
    => /\ t_result.type.id = "or" =>
              /\ \A i \in 1..Len(t_result.type.types) :
                     t_result.type.types[i].id # "or"
              /\ Contains(t_input, "|")

\* C13: `table<K, V> d` parses into a Dict with the key type K and the value type
\* V, with the description d.
C13_MapType ==
    (t_pc = "parsed" /\ t_tree \in TableTrees)
    => /\ t_result.raised = ""
       /\ t_result.type = TypeOf(t_tree.args[1])
       /\ t_result.desc = t_tree.name

\* C14: `X[]|Y[] d` parses into an Or of Array(X) then Array(Y), with the
\* description d.
C14_ArrayUnion ==
    (t_pc = "parsed" /\ t_tree \in ArrayUnionTrees)
    => /\ t_result.raised = ""
       /\ t_result.type = TypeOf(t_tree.args[1])
       /\ t_result.type.id = "or"
       /\ Len(t_result.type.types) = 2
       /\ t_result.desc = t_tree.name

\* `number[]|string[] the number table`
C14_Witness ==
    /\ t_pc = "parsed"
    /\ t_input = "number[]|string[] the number table"
    /\ t_result.type
       = LuaTypeOr(<<LuaTypeArray(LuaType("number")), LuaTypeArray(LuaType("string"))>>)
    /\ t_result.desc = "the number table"

\* a function type whose arguments are names
FlatNames(t) == t.k = "fun" /\ \A i \in 1..Len(t.args) : t.args[i].k = "name"

FunctionFragments ==
    {last.doc_nodes[i] :
        i \in {j \in 1..Len(last.fragments) : last.fragments[j].kind = "LuaFunction"}}

\* C16: a Function fragment produced for a plain global function declaration is
\* exactly once in the function list of the Module that get_model returns.
C16_NoFunctionLost ==
    (pc = "done" /\ last.node.type = "Function" /\ last.node.name.type = "Name")
    => \A f \in FunctionFragments : Count(heap[model].functions, f) = 1

\* C17: after visiting a method declaration `C:m(...)` whose block produced
\* Function fragments, each of them is exactly once in the methods of class C and
\* none is in the pending function list.
C17_MethodRouting ==
    (last.node.type = "Method" /\ last.parse_raised = "" /\ exc = ""
     /\ FunctionFragments # {})
    => /\ InMap(class_map, last.node.source.id)
       /\ \A f \in FunctionFragments :
              /\ Count(heap[MapGet(class_map, last.node.source.id)].methods, f) = 1
              /\ Count(function_list, f) = 0

\* how many times the function f occurs in the returned Module: in its function
\* list and in the method lists of its classes
Occurrences(f) ==
    Count(heap[model].functions, f)
    + Cardinality({ci \in Range(heap[model].classes) \X (1..Len(heap)) :
                      /\ ci[2] <= Len(heap[ci[1]].methods)
                      /\ heap[ci[1]].methods[ci[2]] = f})

\* C18: a Function fragment attached to a dotted declaration `C.m` is named m, is
\* static, and occurs exactly once in the returned Module.
C18_StaticRouting ==
    (pc = "done" /\ last.node.type = "Function" /\ last.node.name.type = "Index")
    => \A f \in FunctionFragments :
           /\ heap[f].name = last.node.name.idx.id
           /\ heap[f].is_static
           /\ Occurrences(f) = 1

\* the classes a statement declares a function of: the receiver of `C:m`, the
\* owner of `C.m`, and the class named by a tag `@function C:m` or `@function C.m`
Owners(node, C) ==
    \/ node.type = "Method" /\ node.source.id = C
    \/ node.type = "Function" /\ node.name.type = "Index" /\ node.name.value.id = C
    \/ \E i \in 1..Len(node.comments) :
           \/ StartsWith(node.comments[i], "---@function " \o C \o ":")
           \/ StartsWith(node.comments[i], "---@function " \o C \o ".")
\* the methods of the class registered under the key C in the table class_map_
MethodsOf(heap_, class_map_, C) ==
    IF InMap(class_map_, C) THEN Range(heap_[MapGet(class_map_, C)].methods) ELSE {}

\* C19: a step of the walk adds to the methods of class C only functions created
\* by the statement it visits, whose receiver, owner or @function tag names C, and
\* it removes no function from the pending function list.
C19_OwnClassOnly ==
    [][/\ \A f \in Range(function_list) : f \in Range(function_list')
       /\ \A i \in 1..Len(class_map') :
              \A f \in MethodsOf(heap', class_map', class_map'[i].key)
                       \ MethodsOf(heap, class_map, class_map'[i].key) :
                  /\ f > Len(heap)
                  /\ Owners(last'.node, class_map'[i].key)]_vars

\* the last block has the line
HasLine(line) == line \in Range(last.node.comments)
\* the Function fragments of the last block, in order
FunctionsOf(fragments) == SelectSeq(fragments, LAMBDA n : n.kind = "LuaFunction")

\* C20: a block on a function or method declaration with an explicit @function
\* tag, or on a function declaration with @export, yields exactly one Function
\* fragment, and that fragment carries the block's params and returns.
C20_OneFunctionPerBlock ==
    (/\ last.node.type \in {"Function", "Method"}
     /\ last.parse_raised = ""
     /\ Range(last.node.comments) \subseteq Range(LinesOf("explicit"))
     /\ \/ HasLine("---@function add")
        \/ HasLine("---@export") /\ last.node.type = "Function")
    => /\ Len(FunctionsOf(last.fragments)) = 1
       /\ ParamNames(FunctionsOf(last.fragments)[1])
          = (IF HasLine("---@param a number") THEN <<"a">> ELSE <<>>)
       /\ Len(FunctionsOf(last.fragments)[1].returns)
          = (IF HasLine("---@return number the sum") THEN 1 ELSE 0)

\* the Param a well-formed param tag line of the vocabularies documents
TagParam(line) ==
    CASE line = "---@param a number" -> <<"a">>
      [] line = "---@tparam number b the b" -> <<"b">>
      [] line = "---@vararg number" -> <<"...">>
      [] OTHER -> <<>>
\* the names of the params the tag lines document, in the order of the lines
RECURSIVE DocumentedParams(_)
DocumentedParams(comments) ==
    IF comments = <<>> THEN <<>>
    ELSE TagParam(Head(comments)) \o DocumentedParams(Tail(comments))
\* the Function objects the last block created, fragments and methods alike
FunctionsCreated == FunctionsOf(last.allocated)
FunctionLines ==
    {"---@function add", "---@function Foo:bar", "---@function Foo.bar"}

\* C21: in a block that produces one Function through an @function line, the
\* params of the block's param tags are that Function's param list, in the order
\* of the tag lines, whether a tag line comes before or after the @function line.
C21_TagOrder ==
    (/\ Range(last.node.comments) \subseteq Range(LinesOf("order"))
     /\ Cardinality(Range(last.node.comments) \cap FunctionLines) = 1
     /\ last.parse_raised = ""
     /\ Len(FunctionsCreated) = 1)
    => ParamNames(FunctionsCreated[1]) = DocumentedParams(last.node.comments)

\* the free-text lines of a block: the lines without a tag, prefix stripped
FreeText(comments) ==
    LET free == SelectSeq(comments, LAMBDA c : ~StartsWith(LStrip(c, {"-", " "}), "@"))
    IN  [i \in 1..Len(free) |-> LStrip(free[i], {"-", " "})]
\* the name a function declaration declares
DeclaredName(node) ==
    IF node.name.type = "Index" THEN node.name.idx.id ELSE node.name.id
ExportLines == {"---@export", "---@constant"}

\* C22: a block with @export or @constant, free-text lines and no other tag, on a
\* function or local function declaration, no namespace being active, yields one
\* Function named as the declaration, with the first free-text line as short
\* description and the remaining ones, joined by newline, as long description.
C22_ExportSynthesis ==
    (/\ last.node.type \in {"Function", "LocalFunction"}
     /\ Range(last.node.comments) \cap ExportLines # {}
     /\ Range(last.node.comments) \subseteq ExportLines \cup {"--- The answer"}
     /\ parser.namespace = ""
     /\ last.parse_raised = "")
    => /\ Len(FunctionsOf(last.fragments)) = 1
       /\ LET f == FunctionsOf(last.fragments)[1]
              text == FreeText(last.node.comments)
          IN  /\ f.name = DeclaredName(last.node)
              /\ f.short_desc = (IF text = <<>> THEN "" ELSE Head(text))
              /\ f.desc = (IF text = <<>> THEN "" ELSE Join(Tail(text), "\n"))

\* the Data fragments of the last block, in order
DataOf(fragments) == SelectSeq(fragments, LAMBDA n : n.kind = "LuaValue")

\* C23: a block with @export or @constant and no @function or @type tag, on an
\* assignment or local assignment of a plain value, no namespace being active,
\* yields exactly one Data fragment named by the target, with the free-text
\* description, public, and constant exactly when @constant was used.
C23_ExportValue ==
    (/\ IsAssign(last.node)
     /\ Range(last.node.comments) \cap ExportLines # {}
     /\ Range(last.node.comments) \subseteq ExportLines \cup {"--- The answer"}
     /\ parser.namespace = ""
     /\ last.parse_raised = "")
    => /\ Len(DataOf(last.fragments)) = 1
       /\ LET d == DataOf(last.fragments)[1]
              text == FreeText(last.node.comments)
          IN  /\ d.name = last.node.targets[1].id
              /\ d.short_desc = (IF text = <<>> THEN "" ELSE Head(text))
              /\ d.visibility = "public"
              /\ d.constant = HasLine("---@constant")

\* the name is prefixed by the namespace ns, once
PrefixedOnce(name) ==
    StartsWith(name, "ns.") /\ ~StartsWith(From(name, Len("ns.") + 1), "ns.")

\* C24: in a block with `@namespace ns`, every Class, Function or Data fragment
\* the block produces is named ns.N, prefixed exactly once, however the fragment
\* is produced and wherever the @namespace line stands in the block.
C24_NamespacePrefix ==
    (HasLine("---@namespace ns") /\ last.parse_raised = "")
    => \A i \in 1..Len(last.fragments) :
           last.fragments[i].kind \in {"LuaClass", "LuaFunction", "LuaValue"}
           => PrefixedOnce(last.fragments[i].name)

\* the lines of a block after its first @usage line
RECURSIVE AfterUsage(_)
AfterUsage(comments) ==
    IF comments = <<>> THEN <<>>
    ELSE IF Head(comments) = "---@usage" THEN Tail(comments)
    ELSE AfterUsage(Tail(comments))

\* C25: once @usage has been dispatched, every later free-text line of the block
\* is in the usage buffer, in order, and not in the free-text accumulator,
\* whatever tags stand between @usage and the line.
C25_UsageToEndOfBlock ==
    (HasLine("---@usage") /\ last.parse_raised = "")
    => parser.usage_str = FreeText(AfterUsage(last.node.comments))

\* the Data objects of the unit, in the order in which their tags were met
DataRefs == SelectSeq([i \in 1..Len(heap) |-> i], LAMBDA i : heap[i].kind = "LuaValue")

\* C26: the data list of the Module that get_model returns holds every Data
\* fragment of the unit exactly once, in source order, with or without a
\* @module tag and wherever the @module tag stands.
C26_DataRouting == pc = "done" => heap[model].data = DataRefs

\* the ClassField an @field line of the vocabularies declares
FieldLines ==
    {"---@field a number the a", "---@field public b string", "---@field a number"}
FieldOf(line) ==
    CASE line = "---@field a number the a" ->
             LuaClassField("a", "the a", LuaType("number"), "public")
      [] line = "---@field public b string" ->
             LuaClassField("b", "", LuaType("string"), "public")
      [] line = "---@field a number" ->
             LuaClassField("a", "", LuaType("number"), "public")
\* the fields of the first Class fragment of the last block
ClassFields ==
    LET c == SelectSeq(last.fragments, LAMBDA n : n.kind = "LuaClass")[1]
    IN  [i \in 1..Len(c.fields) |-> last.allocated[c.fields[i] - last.heap_before]]

\* C27: in a block that opens class Foo, each @field line, with or without the
\* visibility keyword and with or without a description, adds exactly one
\* ClassField with its name, type, description and visibility to the class.
C27_FieldShapes ==
    (HasLine("---@class Foo") /\ last.parse_raised = "")
    => \A line \in Range(last.node.comments) \cap FieldLines :
           Count(ClassFields, FieldOf(line)) = 1

\* the object behind a reference the last block allocated
Allocated(ref) == last.allocated[ref - last.heap_before]
\* the last block has a Class fragment C holding a method m, static or not
HasMethod(C, m, static) ==
    \E i \in 1..Len(last.fragments) :
        /\ last.fragments[i].kind = "LuaClass"
        /\ last.fragments[i].name = C
        /\ \E j \in 1..Len(last.fragments[i].methods) :
               /\ Allocated(last.fragments[i].methods[j]).name = m
               /\ Allocated(last.fragments[i].methods[j]).is_static = static

\* C28: `@function NAME` yields a Function named NAME whatever the length of
\* NAME; `@function C:m` yields a Class C holding the instance method m and
\* `@function C.m` a Class C holding the static method m.
C28_FunctionNaming ==
    last.parse_raised = ""
    => /\ HasLine("---@function f")
          => \E i \in 1..Len(last.fragments) :
                 /\ last.fragments[i].kind = "LuaFunction"
                 /\ last.fragments[i].name = "f"
       /\ HasLine("---@function Foo:m") => HasMethod("Foo", "m", FALSE)
       /\ HasLine("---@function Foo.s") => HasMethod("Foo", "s", TRUE)

\* one name per distinct declared parameter identifier, in declaration order,
\* and `...` for the variadic marker
RECURSIVE DeclaredParams(_, _)
DeclaredParams(args, seen) ==
    IF args = <<>> THEN <<>>
    ELSE IF Head(args).type = "Varargs" THEN <<"...">> \o DeclaredParams(Tail(args), seen)
    ELSE IF Head(args).id \in seen THEN DeclaredParams(Tail(args), seen)
    ELSE <<Head(args).id>> \o DeclaredParams(Tail(args), seen \cup {Head(args).id})
\* the Function objects created since the last block began
NewFunctions ==
    {i \in (last.heap_before + 1)..Len(heap) : heap[i].kind = "LuaFunction"}

\* C29: for a method declaration C:m(p1, ..., pk) whose block produces no
\* fragment, class C exists and receives exactly one new Function named m, with
\* the first free-text line as short description and one Param per distinct
\* declared parameter, in declaration order, `...` standing for the variadic one.
C29_AutoDocumentation ==
    (/\ pc \in {"walk", "done"}
     /\ last.node.type = "Method"
     /\ last.parse_raised = ""
     /\ last.fragments = <<>>)
    => /\ InMap(class_map, last.node.source.id)
       /\ Cardinality(NewFunctions) = 1
       /\ \A f \in NewFunctions :
              /\ Count(heap[MapGet(class_map, last.node.source.id)].methods, f) = 1
              /\ heap[f].name = last.node.name.id
              /\ heap[f].short_desc =
                     (IF FreeText(last.node.comments) = <<>> THEN ""
                      ELSE Head(FreeText(last.node.comments)))
              /\ ParamNames(heap[f]) = DeclaredParams(last.node.args, {})

ClassModError == "SyntaxException: in a @classmod, only one class is allowed"
\* the unit's module comes from @classmod
IsClassMod == module # None /\ heap[module].is_class_mod

\* C30: for a unit whose module comes from @classmod, get_model returns that
\* Module holding exactly one Class, the single class of the class table, renamed
\* to the module's name and given the module's description and usage; with zero
\* or several classes in the table it raises SyntaxException and returns nothing.
C30_ClassModule ==
    /\ (pc = "done" /\ IsClassMod)
       => /\ model = module
          /\ Len(class_map) = 1
          /\ heap[model].classes = <<class_map[1].ref>>
          /\ heap[class_map[1].ref].name = heap[model].name
          /\ heap[class_map[1].ref].desc = heap[model].desc
          /\ heap[class_map[1].ref].usage = heap[model].usage
    /\ exc = ClassModError
       => /\ pc = "raised"
          /\ IsClassMod
          /\ Len(class_map) # 1
          /\ model = None

\* a class module with its single class has been returned
C30_Witness ==
    /\ pc = "done"
    /\ IsClassMod
    /\ Len(class_map) = 1
    /\ heap[model].name = "c"
    /\ heap[class_map[1].ref].name = "c"
    /\ heap[model].classes = <<class_map[1].ref>>

====
